---- MODULE Spec2Model ----
(***************************************************************************)
(* A model of go-rest: the handler pipeline (pipeline.go), the service and *)
(* context shells that build and dispatch pipelines (service.go,           *)
(* context.go) and the time-based UUID generator behind request ids.       *)
(*                                                                         *)
(* Pipelines are Go slices: a slice header (array, len, cap) over a        *)
(* backing array kept in a heap, so that sharing of backing arrays between *)
(* pipelines is something the model can exhibit.                           *)
(***************************************************************************)
EXTENDS Integers, Sequences, FiniteSets, TLC

VARIABLES
  heap,      \* backing arrays of all pipelines: heap[a] is the cells of array a
  spipe,     \* Service.pipeline
  cpipe,     \* Context.pipeline
  upipe,     \* a Pipeline value built by the program that uses the package
  routes,    \* handlers registered on the router by Context.Handle, in order
  running,   \* Service.Run was called
  nops,      \* number of registration calls made so far
  snap,      \* for each pipeline, its elements as of the call that produced it
  flat,      \* for each pipeline, its elements had every Add of a pipeline
             \* appended that pipeline's elements one by one
  last,      \* what the latest Service.ServeHTTP call did
  clockSeq,  \* the process-wide clock sequence, a uint32 as two 16-bit halves
  pc,        \* per request execution: where it is inside UUIDFromTime
  atime,     \* per request execution: the time UUIDFromTime was given
  clock,     \* per request execution: the value atomic.AddUint32 returned
  uuid,      \* per request execution: the UUID it produced
  gen,       \* the UUIDs generated: how many, and the first, the one before
             \* the latest and the latest, each with its time and clock value
  codec,     \* the latest call of the UUID text functions: its arguments and
             \* what it returned
  guard,     \* a CORS guard: its policy, and the request it served with what
             \* Cors.ServeRequest did
  resp,      \* the latest call of Service.sendResponse: its arguments and the
             \* response writer after it
  bag,       \* attribute maps: the heap of maps, the map a route's closure
             \* holds, and each execution's request with its Attrs
  base       \* the latest call of UUIDBaseFromTime: its time, what it returned
             \* and clockSeq before and after it

pvars == <<heap, spipe, cpipe, upipe, routes, running, nops, snap, flat, last>>
uvars == <<clockSeq, pc, atime, clock, uuid, gen>>
yvars == <<resp, bag, base>>
xvars == <<codec, guard, resp, bag, base>>
vars == <<heap, spipe, cpipe, upipe, routes, running, nops, snap, flat, last,
          clockSeq, pc, atime, clock, uuid, gen, codec, guard, resp, bag,
          base>>

----------------------------------------------------------------------------
(* Bounds *)

\* Registration calls before the service starts serving.
MaxOps == 4

\* Registration calls on one context, when only the context is set up.
MaxCtxOps == 5

\* Concurrent request executions.
NProcs == 3

\* UUIDs one execution generates in a row.
MaxCalls == 16390

\* Requests served by the route that carries attributes.
MaxRequests == 2

----------------------------------------------------------------------------
(* Handlers and pipelines as values *)

\* A Handler value: a HandlerFunc (named), a Pipeline (slice header) or nil.
NilH == [kind |-> "nil", name |-> "", arr |-> 0, len |-> 0, cap |-> 0]

HandlerFunc(n) == [kind |-> "func", name |-> n, arr |-> 0, len |-> 0, cap |-> 0]

\* A Pipeline is a slice header; arr = 0 is the nil slice.
Slice(a, l, c) == [kind |-> "pipeline", name |-> "", arr |-> a, len |-> l, cap |-> c]

NilPipeline == Slice(0, 0, 0)

\* The elements p[0:len(p)] of a pipeline.
Elems(hp, p) == IF p.arr = 0 THEN <<>> ELSE SubSeq(hp[p.arr], 1, p.len)

Zeros(n) == [i \in 1..n |-> NilH]

\* Capacity of the array the append builtin allocates when it has to grow.
GrowCap(old, needed) == IF needed > 2 * old THEN needed ELSE 2 * old

\* append(s, vs...): in place when the capacity allows, else into a new array.
GoAppend(hp, s, vs) ==
  LET n == Len(vs) IN
  IF n = 0 THEN [heap |-> hp, p |-> s]
  ELSE IF s.len + n <= s.cap
  THEN [heap |-> [hp EXCEPT ![s.arr] =
                    [i \in 1..s.cap |->
                       IF i > s.len /\ i <= s.len + n THEN vs[i - s.len] ELSE @[i]]],
        p |-> Slice(s.arr, s.len + n, s.cap)]
  ELSE LET nc == GrowCap(s.cap, s.len + n) IN
       [heap |-> Append(hp, Elems(hp, s) \o vs \o Zeros(nc - s.len - n)),
        p |-> Slice(Len(hp) + 1, s.len + n, nc)]

\* c := make(Pipeline, len(p)); copy(c, p)
MakeCopy(hp, p) ==
  [heap |-> Append(hp, Elems(hp, p)), p |-> Slice(Len(hp) + 1, p.len, p.len)]

\* The type switch of Add: a Pipeline contributes its elements, anything
\* else itself.
Flatten(hp, h) == IF h.kind = "pipeline" THEN Elems(hp, h) ELSE <<h>>

\* Pipeline{h}
Literal(hp, es) ==
  [heap |-> Append(hp, es), p |-> Slice(Len(hp) + 1, Len(es), Len(es))]

\* Add as it was before the receiver was copied: append straight onto p.
AddNoCopy(hp, p, h) ==
  IF p.arr = 0 THEN Literal(hp, <<h>>)
  ELSE GoAppend(hp, p, Flatten(hp, h))

\* Pipeline.Add
Add(hp, p, h) ==
  IF p.arr = 0 THEN Literal(hp, <<h>>)
  ELSE LET c == MakeCopy(hp, p) IN GoAppend(c.heap, c.p, Flatten(hp, h))

----------------------------------------------------------------------------
(* Results *)

\* A handler's (interface{}, error) pair. res and err are "nil" or a tag.
Result(r, e) == [res |-> r, err |-> e]

NilNil == Result("nil", "nil")

\* A run-time panic unwinding the call (index out of range, nil dereference).
Panic == Result("panic", "panic")

\* Placeholder in the trace for a call that has not returned yet.
Pending == Result("pending", "pending")

\* The handler functions registered by the program using the package. Each is
\* one of the shapes a HandlerFunc can take with respect to its continuation:
\*   term  returns a result without calling Next on its continuation
\*   pass  returns what Next on its continuation returns (as Cors.ServeRequest)
\*   over  calls Next on its continuation, then returns a result of its own
\*   fin   calls req.Finalize() and returns an error without calling Next
Behaviour(name) ==
  CASE name = "term"    -> [fin |-> FALSE, deleg |-> FALSE, own |-> TRUE,  ret |-> Result("A", "nil")]
    [] name = "pass"    -> [fin |-> FALSE, deleg |-> TRUE,  own |-> FALSE, ret |-> NilNil]
    [] name = "over"    -> [fin |-> FALSE, deleg |-> TRUE,  own |-> TRUE,  ret |-> Result("B", "nil")]
    [] name = "fin"     -> [fin |-> TRUE,  deleg |-> FALSE, own |-> TRUE,  ret |-> Result("nil", "E404")]
    [] OTHER            -> [fin |-> FALSE, deleg |-> FALSE, own |-> TRUE,  ret |-> NilNil]

\* Status sendResponse gives a (result, error) pair.
StatusOf(out) ==
  IF out.err = "nil" THEN 200
  ELSE IF out.err = "E404" THEN 404
  ELSE 500

\* One call of Service.sendResponse: the writer, the request it is for
\* ("svc": the one made by ServeHTTP, "ctx": the one made by the route), the
\* pair and the status written.
Send(to, by, out) == [to |-> to, by |-> by, out |-> out, status |-> StatusOf(out)]

----------------------------------------------------------------------------
(* Dispatch *)

\* The state threaded through one request's handling:
\*   trace    handler functions invoked, in order, each with the continuation
\*            it was given and what it returned
\*   fin      the requests on which Finalize was called
\*   sends    the calls of sendResponse, in order
\*   written  raw writes on the transport writer not made by sendResponse
\*   lvl      the request handlers currently receive ("svc" or "ctx")
\*   rts, path, tracing, bodyErr   the router's routes and the request's inputs
RECURSIVE PNext(_, _, _)
RECURSIVE ServeRequest(_, _, _, _)
RECURSIVE HandlerFuncServe(_, _, _, _)
RECURSIVE handle(_, _, _)
RECURSIVE routeRequest(_, _)

\* Next as a loop over the pipeline: after the head returns, the rest is run
\* anyway and the head's result returned.
PNextRunAll(hp, es, st) ==
  IF Len(es) = 0 THEN [out |-> Panic, st |-> st]
  ELSE LET r == ServeRequest(hp, es[1], Tail(es), st) IN
       IF Len(es) > 1 /\ r.out # Panic
       THEN [out |-> r.out, st |-> PNext(hp, Tail(es), r.st).st]
       ELSE r

\* Next handing the head p[2:] where it is to hand it p[1:].
PNextSkip(hp, es, st) ==
  IF Len(es) = 0 THEN [out |-> Panic, st |-> st]
  ELSE ServeRequest(hp, es[1], IF Len(es) >= 2 THEN Tail(Tail(es)) ELSE <<>>, st)

\* Pipeline.ServeRequest going on with the pipeline it is given once its own
\* is through.
ServeRequestChained(hp, h, x, st) ==
  CASE h.kind = "pipeline" -> PNext(hp, Elems(hp, h) \o x, st)
    [] h.kind = "func"     -> HandlerFuncServe(hp, h, x, st)
    [] OTHER               -> [out |-> Panic, st |-> st]

\* Pipeline.Next
PNext(hp, es, st) ==
  IF Len(es) < 0 THEN [out |-> NilNil, st |-> st]
  ELSE IF Len(es) = 0 THEN [out |-> Panic, st |-> st]   \* p[0]: index out of range
  ELSE ServeRequest(hp, es[1], Tail(es), st)

\* Handler.ServeRequest, by the dynamic type of the handler.
\* Pipeline.ServeRequest ignores the pipeline it is given.
ServeRequest(hp, h, x, st) ==
  CASE h.kind = "pipeline" -> PNext(hp, Elems(hp, h), st)
    [] h.kind = "func"     -> HandlerFuncServe(hp, h, x, st)
    [] OTHER               -> [out |-> Panic, st |-> st]   \* nil interface

\* HandlerFunc.ServeRequest: h(w, r, p)
HandlerFuncServe(hp, h, p, st) ==
  LET k   == Len(st.trace) + 1
      b   == Behaviour(h.name)
      st1 == [st EXCEPT
                !.trace = Append(@, [lvl |-> st.lvl, name |-> h.name,
                                     cont |-> p, ret |-> Pending]),
                !.fin = IF b.fin THEN @ \cup {st.lvl} ELSE @]
      r   == IF h.name = "routeRequest" THEN routeRequest(hp, st1)
             ELSE IF b.deleg
             THEN LET n == PNext(hp, p, st1) IN
                  [out |-> IF n.out = Panic THEN Panic
                           ELSE IF b.own THEN b.ret ELSE n.out,
                   st |-> n.st]
             ELSE [out |-> b.ret, st |-> st1]
  IN [out |-> r.out, st |-> [r.st EXCEPT !.trace[k].ret = r.out]]

\* Context.handle, called by the closure Context.Handle registers, with the
\* request newRequestWithAttributes makes for it.
handle(hp, h, st) ==
  IF st.tracing /\ st.bodyErr
  THEN [out |-> NilNil,
        st |-> [st EXCEPT !.sends = Append(@, Send("rsp", "ctx", Result("nil", "E500")))]]
  ELSE LET r  == ServeRequest(hp, h, <<>>, [st EXCEPT !.lvl = "ctx"])
           s1 == [r.st EXCEPT !.lvl = st.lvl]
       IN IF r.out = Panic THEN [out |-> Panic, st |-> s1]
          ELSE IF "ctx" \notin s1.fin
          THEN [out |-> NilNil,
                st |-> [s1 EXCEPT !.sends =
                          IF st.tracing
                          THEN @ \o <<Send("rsp", "ctx", r.out), Send("recorder", "ctx", r.out)>>
                          ELSE Append(@, Send("rsp", "ctx", r.out))]]
          ELSE [out |-> NilNil, st |-> s1]

\* Service.routeRequest: s.router.ServeHTTP(rsp, req.Request); return nil, nil.
\* The router calls the closure of the route the path matches, or writes its
\* own 404 when none does (path = 0).
routeRequest(hp, st) ==
  IF st.path = 0
  THEN [out |-> NilNil, st |-> [st EXCEPT !.written = Append(@, 404)]]
  ELSE LET r == handle(hp, st.rts[st.path], st) IN
       [out |-> IF r.out = Panic THEN Panic ELSE NilNil, st |-> r.st]

\* The state a request starts from.
StartState(rts, path, tracing, bodyErr) ==
  [trace |-> <<>>, fin |-> {}, sends |-> <<>>, written |-> <<>>, lvl |-> "svc",
   rts |-> rts, path |-> path, tracing |-> tracing, bodyErr |-> bodyErr]

\* Service.ServeHTTP as a function of the service's state and the request.
ServeHTTPResult(hp, sp, rts, path, tracing, bodyErr) ==
  LET r == PNext(hp, Elems(hp, sp), StartState(rts, path, tracing, bodyErr)) IN
  IF r.out # Panic /\ (r.out.res # "nil" \/ r.out.err # "nil")
  THEN [out |-> r.out, st |-> [r.st EXCEPT !.sends = Append(@, Send("rsp", "svc", r.out))]]
  ELSE r

----------------------------------------------------------------------------
(* Time-based UUIDs *)

Procs == 1..NProcs

Byte(x) == x % 256

\* x >> n, for 0 <= x < 2^31
Shr(x, n) == IF n > 30 THEN 0 ELSE x \div (2 ^ n)

\* A uint32 as [hi, lo], its upper and lower 16 bits.
U32(h, l) == [hi |-> h, lo |-> l]

\* Addition modulo 2^32.
AddUint32(c, d) ==
  U32((c.hi + ((c.lo + d) \div 65536)) % 65536, (c.lo + d) % 65536)

\* The values init() can give clockSeq are the 16-bit ones; these two are
\* the smallest and one from which the lower half carries.
ClockSeqInits == {U32(0, 0), U32(0, 65534)}

\* Times given to UUIDFromTime: seconds since timeBase and nanoseconds.
Times == {[sec |-> 30, nsec |-> 100], [sec |-> 30, nsec |-> 250]}

\* The node identifier copied into bytes 10..15.
macaddr == <<2, 0, 94, 16, 0, 1>>

\* t := uint64(utcTime.Unix()-timeBase)*10000000 + uint64(utcTime.Nanosecond()/100)
Ticks(tm) == tm.sec * 10000000 + tm.nsec \div 100

\* u[0..7]: the timestamp, version 1 in the upper half of u[6].
TimeBytes(t) ==
  << Byte(Shr(t, 24)), Byte(Shr(t, 16)), Byte(Shr(t, 8)), Byte(t),
     Byte(Shr(t, 40)), Byte(Shr(t, 32)),
     (Byte(Shr(t, 56)) % 16) + 16, Byte(Shr(t, 48)) >>

\* u[8] with the variant bits cleared to 5 bits instead of 6.
ClockHiByteNarrow(c) == (Byte(c.lo \div 256) % 32) + 128

\* u[8] = byte(clock >> 8), then &= 0x3F and |= 0x80
ClockHiByte(c) == (Byte(c.lo \div 256) % 64) + 128

\* u[9] taken from the wrong byte of the clock.
ClockLoByteShifted(c) == Byte(c.lo \div 256)

\* u[9] = byte(clock)
ClockLoByte(c) == Byte(c.lo)

\* The UUID UUIDFromTime builds from a time and the clock value it drew.
MakeUUID(tm, c) ==
  TimeBytes(Ticks(tm)) \o <<ClockHiByte(c), ClockLoByte(c)>> \o macaddr

NoGen == [t |-> [sec |-> 0, nsec |-> 0], clock |-> U32(0, 0), id |-> <<>>]

InitUUIDIdle ==
  /\ clockSeq = U32(0, 0)
  /\ pc = [p \in Procs |-> "idle"]
  /\ atime = [p \in Procs |-> [sec |-> 0, nsec |-> 0]]
  /\ clock = [p \in Procs |-> U32(0, 0)]
  /\ uuid = [p \in Procs |-> <<>>]
  /\ gen = [n |-> 0, start |-> U32(0, 0), first |-> NoGen, prev |-> NoGen, cur |-> NoGen]

\* init(): two random bytes into clockSeq
InitUUID ==
  /\ clockSeq \in ClockSeqInits
  /\ pc = [p \in Procs |-> "idle"]
  /\ atime = [p \in Procs |-> [sec |-> 0, nsec |-> 0]]
  /\ clock = [p \in Procs |-> U32(0, 0)]
  /\ uuid = [p \in Procs |-> <<>>]
  /\ gen = [n |-> 0, start |-> clockSeq, first |-> NoGen, prev |-> NoGen, cur |-> NoGen]

\* newRequest -> TimeUUID -> UUIDFromTime(aTime): entry, the timestamp bytes
UUIDFromTimeEnter(p, tm) ==
  /\ pc[p] = "idle"
  /\ pc' = [pc EXCEPT ![p] = "add"]
  /\ atime' = [atime EXCEPT ![p] = tm]
  /\ UNCHANGED <<clockSeq, clock, uuid, gen>>
  /\ UNCHANGED <<pvars, xvars>>

\* The increment as a plain clockSeq++ followed by a read: a load in one step,
\* the store of the incremented value in a later one.
UUIDFromTimeAddRacy(p) ==
  /\ \/ /\ pc[p] = "add"
        /\ clock' = [clock EXCEPT ![p] = clockSeq]
        /\ pc' = [pc EXCEPT ![p] = "store"]
        /\ UNCHANGED clockSeq
     \/ /\ pc[p] = "store"
        /\ clockSeq' = AddUint32(clock[p], 1)
        /\ clock' = [clock EXCEPT ![p] = clockSeq']
        /\ pc' = [pc EXCEPT ![p] = "pack"]
  /\ UNCHANGED <<atime, uuid, gen>>
  /\ UNCHANGED <<pvars, xvars>>

\* clock := atomic.AddUint32(&clockSeq, 1)
UUIDFromTimeAdd(p) ==
  /\ pc[p] = "add"
  /\ clockSeq' = AddUint32(clockSeq, 1)
  /\ clock' = [clock EXCEPT ![p] = clockSeq']
  /\ pc' = [pc EXCEPT ![p] = "pack"]
  /\ UNCHANGED <<atime, uuid, gen>>
  /\ UNCHANGED <<pvars, xvars>>

\* the clock, node, version and variant bytes; return u
UUIDFromTimeReturn(p) ==
  /\ pc[p] = "pack"
  /\ LET u == MakeUUID(atime[p], clock[p])
         g == [t |-> atime[p], clock |-> clock[p], id |-> u]
     IN /\ uuid' = [uuid EXCEPT ![p] = u]
        /\ gen' = [n |-> gen.n + 1, start |-> gen.start,
                   first |-> IF gen.n = 0 THEN g ELSE gen.first,
                   prev |-> gen.cur, cur |-> g]
  /\ pc' = [pc EXCEPT ![p] = "done"]
  /\ UNCHANGED <<clockSeq, atime, clock>>
  /\ UNCHANGED <<pvars, xvars>>

\* The execution goes on to its next request.
NextRequest(p) ==
  /\ pc[p] = "done"
  /\ gen.n < MaxCalls
  /\ pc' = [pc EXCEPT ![p] = "idle"]
  /\ UNCHANGED <<clockSeq, atime, clock, uuid, gen>>
  /\ UNCHANGED <<pvars, xvars>>

\* UUIDBaseFromTime setting the variant bits to 0xC0.
UUIDBaseFromTimeReserved(tm) ==
  TimeBytes(Ticks(tm)) \o <<(Byte(0) % 64) + 192, Byte(0)>> \o macaddr

\* UUIDBaseFromTime(aTime): u[8] = byte(0), u[9] = byte(0), then the node,
\* version and variant as in UUIDFromTime
UUIDBaseFromTime(tm) ==
  TimeBytes(Ticks(tm)) \o <<(Byte(0) % 64) + 128, Byte(0)>> \o macaddr

NoBase ==
  [called |-> FALSE, t |-> [sec |-> 0, nsec |-> 0], id |-> <<>>,
   before |-> U32(0, 0), after |-> U32(0, 0)]

InitBase == base = NoBase

\* One call of UUIDBaseFromTime(tm), at any point of the execution.
UUIDBaseFromTimeCall(tm) ==
  /\ ~base.called
  /\ UNCHANGED <<clockSeq, pc, atime, clock, uuid, gen>>
  /\ base' = [called |-> TRUE, t |-> tm, id |-> UUIDBaseFromTime(tm),
              before |-> clockSeq, after |-> clockSeq']
  /\ UNCHANGED <<pvars, codec, guard, resp, bag>>

\* Values of clockSeq: every value of its low 14 bits, and two with higher
\* bits set.
BaseClockSeqs ==
  {U32(0, l) : l \in 0..16383} \cup {U32(0, 65535), U32(65535, 65535)}

----------------------------------------------------------------------------
(* UUIDs as text: ParseUUID, String, MarshalJSON, UnmarshalJSON *)

\* A string is the sequence of the code points of its characters.
Ord(c) ==
  CASE c = "\"" -> 34 [] c = "-" -> 45 [] c = "0" -> 48 [] c = "9" -> 57
    [] c = "A" -> 65 [] c = "F" -> 70 [] c = "a" -> 97 [] c = "f" -> 102

\* var ZeroUUID UUID = [16]byte{}
ZeroUUID == [i \in 1..16 |-> 0]

\* a | b on bytes
RECURSIVE BitOr(_, _)
BitOr(a, b) ==
  IF a = 0 THEN b
  ELSE IF b = 0 THEN a
  ELSE (IF a % 2 = 1 \/ b % 2 = 1 THEN 1 ELSE 0) + 2 * BitOr(a \div 2, b \div 2)

\* byte(x) << s
Shl(x, s) == (x * (2 ^ s)) % 256

\* The digit test with the lowercase range running to 'z'.
HexValLoose(r) ==
  IF r >= Ord("0") /\ r <= Ord("9") THEN r - Ord("0")
  ELSE IF r >= Ord("a") /\ r <= 122 THEN (r - Ord("a") + 10) % 16
  ELSE IF r >= Ord("A") /\ r <= Ord("F") THEN r - Ord("A") + 10
  ELSE -1

\* The three digit cases of ParseUUID's switch: the value of r, -1 for a
\* character none of them takes.
HexVal(r) ==
  IF r >= Ord("0") /\ r <= Ord("9") THEN r - Ord("0")
  ELSE IF r >= Ord("a") /\ r <= Ord("f") THEN r - Ord("a") + 10
  ELSE IF r >= Ord("A") /\ r <= Ord("F") THEN r - Ord("A") + 10
  ELSE -1

\* uint(4-j&1*4): & and * bind alike and tighter than -, so 4 - ((j&1)*4)
Shift(j) == 4 - ((j % 2) * 4)

\* The loop of ParseUUID from character i on, u and j as they stand; ok is
\* FALSE when the default case returned.
RECURSIVE ParseLoop(_, _, _, _)
ParseLoop(input, i, u, j) ==
  IF i > Len(input) THEN [u |-> u, j |-> j, ok |-> TRUE]
  ELSE LET r == input[i] IN
       IF r = Ord("-") /\ j % 2 = 0
       THEN ParseLoop(input, i + 1, u, j)
       ELSE IF HexVal(r) >= 0 /\ j < 32
       THEN ParseLoop(input, i + 1,
                      [u EXCEPT ![(j \div 2) + 1] = BitOr(@, Shl(HexVal(r), Shift(j)))],
                      j + 1)
       ELSE [u |-> u, j |-> j, ok |-> FALSE]

\* ParseUUID returning what it has decoded when the digits run short.
ParseUUIDPartial(input) ==
  LET l == ParseLoop(input, 1, ZeroUUID, 0) IN
  IF ~l.ok THEN [u |-> ZeroUUID, err |-> TRUE]
  ELSE IF l.j # 32 THEN [u |-> l.u, err |-> TRUE]
  ELSE [u |-> l.u, err |-> FALSE]

\* ParseUUID(input): (UUID, error)
ParseUUID(input) ==
  LET l == ParseLoop(input, 1, ZeroUUID, 0) IN
  IF ~l.ok THEN [u |-> ZeroUUID, err |-> TRUE]
  ELSE IF l.j # 32 THEN [u |-> ZeroUUID, err |-> TRUE]
  ELSE [u |-> l.u, err |-> FALSE]

\* const hexString = "0123456789abcdef"
hexString == <<48, 49, 50, 51, 52, 53, 54, 55, 56, 57, 97, 98, 99, 100, 101, 102>>

\* The offsets of the digits were the string written without hyphens.
offsetsPacked == <<0, 2, 4, 6, 8, 10, 12, 14, 16, 18, 20, 22, 24, 26, 28, 30>>

offsets == <<0, 2, 4, 6, 9, 11, 14, 16, 19, 21, 24, 26, 28, 30, 32, 34>>

\* UUID.String: the digits at their offsets, then the four hyphens
String(u) ==
  LET digits == [k \in 1..36 |->
        IF \E i \in 1..16 : offsets[i] + 1 = k
        THEN hexString[(u[CHOOSE i \in 1..16 : offsets[i] + 1 = k] \div 16) + 1]
        ELSE IF \E i \in 1..16 : offsets[i] + 2 = k
        THEN hexString[(u[CHOOSE i \in 1..16 : offsets[i] + 2 = k] % 16) + 1]
        ELSE 0]
  IN [k \in 1..36 |-> IF k \in {9, 14, 19, 24} THEN Ord("-") ELSE digits[k]]

\* "null"
null == <<110, 117, 108, 108>>

Quoted(s) == <<Ord("\"")>> \o s \o <<Ord("\"")>>

\* UUID.MarshalJSON
MarshalJSON(u) == IF u = ZeroUUID THEN null ELSE Quoted(String(u))

\* strings.Trim(s, `"`)
RECURSIVE Trim(_)
Trim(s) ==
  IF s = <<>> THEN s
  ELSE IF Head(s) = Ord("\"") THEN Trim(Tail(s))
  ELSE IF s[Len(s)] = Ord("\"") THEN Trim(SubSeq(s, 1, Len(s) - 1))
  ELSE s

\* (u *UUID).UnmarshalJSON(data): the target afterwards and the error
UnmarshalJSON(u, data) ==
  IF data = null \/ data = <<Ord("0")>> THEN [u |-> ZeroUUID, err |-> FALSE]
  ELSE LET str == Trim(data) IN
       IF Len(str) > 36 THEN [u |-> u, err |-> TRUE]
       ELSE LET r == ParseUUID(str) IN
            [u |-> IF r.err THEN u ELSE r.u, err |-> r.err]

\* Inputs of the text functions.
ByteVals == {0, 1, 15, 16, 127, 128, 171, 255}

SampleUUID == <<1, 35, 69, 103, 137, 171, 205, 239, 254, 220, 186, 152, 118, 84, 50, 16>>

\* UUIDs: the zero one, a sample, and each with one byte set to a chosen value.
UUIDInputs ==
  {[b EXCEPT ![i] = v] : b \in {ZeroUUID, SampleUUID}, i \in 1..16, v \in ByteVals}

\* 32 lowercase hex digits: those of the sample, and with one digit changed.
SampleDigits ==
  <<48, 49, 50, 51, 52, 53, 54, 55, 56, 57, 97, 98, 99, 100, 101, 102,
    102, 101, 100, 99, 98, 97, 57, 56, 55, 54, 53, 52, 51, 50, 49, 48>>

DigitInputs ==
  {[SampleDigits EXCEPT ![k] = c] : k \in 1..32, c \in {48, 57, 97, 102}}

\* The 8-4-4-4-12 form of 32 digits.
Canonical(d) ==
  SubSeq(d, 1, 8) \o <<45>> \o SubSeq(d, 9, 12) \o <<45>> \o SubSeq(d, 13, 16)
    \o <<45>> \o SubSeq(d, 17, 20) \o <<45>> \o SubSeq(d, 21, 32)

CanonicalInputs == {Canonical(d) : d \in DigitInputs}

\* Characters put into strings: the hyphen, the quote, a space, the ends of
\* the three digit ranges and the characters next to them.
EditChars == {32, 34, 45, 47, 48, 57, 58, 64, 65, 70, 71, 96, 97, 102, 103}

Insert(s, k, c) == SubSeq(s, 1, k) \o <<c>> \o SubSeq(s, k + 1, Len(s))

Delete(s, k) == SubSeq(s, 1, k - 1) \o SubSeq(s, k + 1, Len(s))

\* Strings given to ParseUUID: canonical ones; the sample, with and without
\* hyphens, with one character replaced, inserted or removed; the sample's
\* digits with two hyphens anywhere; prefixes; the empty string and "null".
StringInputs ==
  LET bases == {SampleDigits, Canonical(SampleDigits)} IN
    CanonicalInputs
    \cup {[s EXCEPT ![k] = c] : s \in bases, k \in 1..32, c \in EditChars}
    \cup {Insert(s, k, c) : s \in bases, k \in 0..32, c \in EditChars}
    \cup {Delete(s, k) : s \in bases, k \in 1..32}
    \cup {Insert(Insert(SampleDigits, k, 45), m, 45) : k \in 0..32, m \in 0..33}
    \cup {SubSeq(SampleDigits, 1, n) : n \in 0..32}
    \cup {null}

\* Documents given to UnmarshalJSON: null, 0, nothing, and strings in quotes.
DataInputs ==
  {null, <<48>>, <<>>} \cup {Quoted(s) : s \in StringInputs}

NoCall ==
  [op |-> "none", u |-> ZeroUUID, s |-> <<>>, ru |-> ZeroUUID, rs |-> <<>>,
   err |-> FALSE]

InitCodec == codec = NoCall

\* u, err := ParseUUID(s), and u.String() when it succeeded
ParseUUIDCall(s) ==
  /\ LET r == ParseUUID(s) IN
       codec' = [op |-> "ParseUUID", u |-> ZeroUUID, s |-> s, ru |-> r.u,
                 rs |-> IF r.err THEN <<>> ELSE String(r.u), err |-> r.err]
  /\ UNCHANGED <<pvars, uvars, guard, yvars>>

\* s := u.String(), and ParseUUID(s)
StringCall(u) ==
  /\ LET s == String(u)
         r == ParseUUID(s) IN
       codec' = [op |-> "String", u |-> u, s |-> <<>>, ru |-> r.u, rs |-> s,
                 err |-> r.err]
  /\ UNCHANGED <<pvars, uvars, guard, yvars>>

\* data, _ := u.MarshalJSON()
MarshalJSONCall(u) ==
  /\ codec' = [op |-> "MarshalJSON", u |-> u, s |-> <<>>, ru |-> u,
               rs |-> MarshalJSON(u), err |-> FALSE]
  /\ UNCHANGED <<pvars, uvars, guard, yvars>>

\* err := u.UnmarshalJSON(data)
UnmarshalJSONCall(u, data) ==
  /\ LET r == UnmarshalJSON(u, data) IN
       codec' = [op |-> "UnmarshalJSON", u |-> u, s |-> data, ru |-> r.u,
                 rs |-> <<>>, err |-> r.err]
  /\ UNCHANGED <<pvars, uvars, guard, yvars>>

----------------------------------------------------------------------------
(* The CORS guard: policy *)

\* Origins are strings as sequences of characters; methods and header names
\* are whole strings.

\* strings.ToLower, on the characters origins are written with here
LowerChar(ch) == CASE ch = "A" -> "a" [] ch = "B" -> "b" [] OTHER -> ch

ToLower(s) == [i \in DOMAIN s |-> LowerChar(s[i])]

\* strings.ToUpper, on the method names used here
ToUpper(m) ==
  CASE m = "get" -> "GET" [] m = "post" -> "POST" [] m = "delete" -> "DELETE"
    [] m = "Delete" -> "DELETE" [] m = "options" -> "OPTIONS" [] m = "put" -> "PUT"
    [] OTHER -> m

\* http.CanonicalHeaderKey, on the header names used here
CanonicalHeaderKey(h) ==
  CASE h = "origin" -> "Origin" [] h = "accept" -> "Accept"
    [] h = "content-type" -> "Content-Type"
    [] h = "x-foo" -> "X-Foo" [] h = "X-FOO" -> "X-Foo"
    [] h = "x-bar" -> "X-Bar" [] h = "x-evil" -> "X-Evil"
    [] OTHER -> h

\* convert(s, f): f applied to each element; f is strings.ToUpper or
\* http.CanonicalHeaderKey, given by name
convert(s, f) ==
  [i \in DOMAIN s |->
     IF f = "strings.ToUpper" THEN ToUpper(s[i]) ELSE CanonicalHeaderKey(s[i])]

\* strings.IndexByte(s, ch)
IndexByte(s, ch) ==
  IF \E i \in DOMAIN s : s[i] = ch
  THEN (CHOOSE i \in DOMAIN s : s[i] = ch /\ \A k \in 1..(i - 1) : s[k] # ch) - 1
  ELSE -1

HasPrefix(s, p) == Len(s) >= Len(p) /\ SubSeq(s, 1, Len(p)) = p

HasSuffix(s, x) == Len(s) >= Len(x) /\ SubSeq(s, Len(s) - Len(x) + 1, Len(s)) = x

\* wildcard{prefix, suffix}.match(s): s starts with the prefix and ends with
\* the suffix
wildcardMatch(w, s) == HasPrefix(s, w.prefix) /\ HasSuffix(s, w.suffix)

\* The origin predicates a program may configure: none, or one allowing
\* exactly the origin "b".
AllowOriginFuncs == {"nil", "onlyB"}

CallOriginFunc(f, origin) == f = "onlyB" /\ origin = <<"b">>

\* New: the loop over options.AllowedOrigins, from the entries os on, with
\* the lists built so far.
RECURSIVE NewOrigins(_, _, _)

\* The loop leaving the '*' at the head of a wildcard's suffix.
NewOriginsKeepStar(os, plain, wild) ==
  IF os = <<>> THEN [all |-> FALSE, plain |-> plain, wild |-> wild]
  ELSE LET origin == ToLower(Head(os))
           i == IndexByte(origin, "*") IN
       IF origin = <<"*">> THEN [all |-> TRUE, plain |-> <<>>, wild |-> <<>>]
       ELSE IF i >= 0
       THEN NewOrigins(Tail(os), plain,
                       Append(wild, [prefix |-> SubSeq(origin, 1, i),
                                     suffix |-> SubSeq(origin, i + 1, Len(origin))]))
       ELSE NewOrigins(Tail(os), Append(plain, origin), wild)

\* The loop setting allow-all at a bare "*" and going on with the lists it
\* has, instead of clearing them and stopping.
NewOriginsNoReset(os, plain, wild) ==
  IF os = <<>> THEN [all |-> FALSE, plain |-> plain, wild |-> wild]
  ELSE LET origin == ToLower(Head(os))
           i == IndexByte(origin, "*") IN
       IF origin = <<"*">>
       THEN [all |-> TRUE, plain |-> NewOrigins(Tail(os), plain, wild).plain,
             wild |-> NewOrigins(Tail(os), plain, wild).wild]
       ELSE IF i >= 0
       THEN NewOrigins(Tail(os), plain,
                       Append(wild, [prefix |-> SubSeq(origin, 1, i),
                                     suffix |-> SubSeq(origin, i + 2, Len(origin))]))
       ELSE NewOrigins(Tail(os), Append(plain, origin), wild)

NewOrigins(os, plain, wild) ==
  IF os = <<>> THEN [all |-> FALSE, plain |-> plain, wild |-> wild]
  ELSE LET origin == ToLower(Head(os))
           i == IndexByte(origin, "*") IN
       IF origin = <<"*">> THEN [all |-> TRUE, plain |-> <<>>, wild |-> <<>>]
       ELSE IF i >= 0
       THEN NewOrigins(Tail(os), plain,
                       Append(wild, [prefix |-> SubSeq(origin, 1, i),
                                     suffix |-> SubSeq(origin, i + 2, Len(origin))]))
       ELSE NewOrigins(Tail(os), Append(plain, origin), wild)

\* New(options): the normalized policy
New(options) ==
  LET o == IF Len(options.AllowedOrigins) = 0
           THEN [all |-> TRUE, plain |-> <<>>, wild |-> <<>>]
           ELSE NewOrigins(options.AllowedOrigins, <<>>, <<>>)
      hall == \E i \in DOMAIN options.AllowedHeaders : options.AllowedHeaders[i] = "*"
  IN [allowedOriginsAll |-> o.all,
      allowedOrigins    |-> o.plain,
      allowedWOrigins   |-> o.wild,
      allowOriginFunc   |-> options.AllowOriginFunc,
      allowedHeadersAll |-> hall,
      allowedHeaders    |-> IF Len(options.AllowedHeaders) = 0
                            THEN <<"Origin", "Accept", "Content-Type">>
                            ELSE IF hall THEN <<>>
                            ELSE convert(Append(options.AllowedHeaders, "Origin"),
                                         "http.CanonicalHeaderKey"),
      allowedMethods    |-> IF Len(options.AllowedMethods) = 0
                            THEN <<"GET", "POST">>
                            ELSE convert(options.AllowedMethods, "strings.ToUpper"),
      exposedHeaders    |-> convert(options.ExposedHeaders, "http.CanonicalHeaderKey"),
      allowCredentials  |-> options.AllowCredentials,
      maxAge            |-> options.MaxAge,
      optionPassthrough |-> options.OptionsPassthrough,
      allowIgnoreCORS   |-> options.AllowIgnoreCORS]

\* isOriginAllowed consulting the allow-all flag before the predicate.
isOriginAllowedAllFirst(c, origin) ==
  IF c.allowedOriginsAll THEN TRUE
  ELSE IF c.allowOriginFunc # "nil" THEN CallOriginFunc(c.allowOriginFunc, origin)
  ELSE LET lo == ToLower(origin) IN
       \/ \E i \in DOMAIN c.allowedOrigins : c.allowedOrigins[i] = lo
       \/ \E i \in DOMAIN c.allowedWOrigins : wildcardMatch(c.allowedWOrigins[i], lo)

\* isOriginAllowed trying the lists first and the predicate last.
isOriginAllowedListFirst(c, origin) ==
  LET lo == ToLower(origin) IN
  \/ c.allowedOriginsAll
  \/ \E i \in DOMAIN c.allowedOrigins : c.allowedOrigins[i] = lo
  \/ \E i \in DOMAIN c.allowedWOrigins : wildcardMatch(c.allowedWOrigins[i], lo)
  \/ c.allowOriginFunc # "nil" /\ CallOriginFunc(c.allowOriginFunc, origin)

\* Cors.isOriginAllowed
isOriginAllowed(c, origin) ==
  IF c.allowOriginFunc # "nil" THEN CallOriginFunc(c.allowOriginFunc, origin)
  ELSE IF c.allowedOriginsAll THEN TRUE
  ELSE LET lo == ToLower(origin) IN
       \/ \E i \in DOMAIN c.allowedOrigins : c.allowedOrigins[i] = lo
       \/ \E i \in DOMAIN c.allowedWOrigins : wildcardMatch(c.allowedWOrigins[i], lo)

\* isMethodAllowed comparing the method as it was sent.
isMethodAllowedExact(c, method) ==
  IF Len(c.allowedMethods) = 0 THEN FALSE
  ELSE IF method = "OPTIONS" THEN TRUE
  ELSE \E i \in DOMAIN c.allowedMethods : c.allowedMethods[i] = method

\* Cors.isMethodAllowed
isMethodAllowed(c, method) ==
  IF Len(c.allowedMethods) = 0 THEN FALSE
  ELSE LET m == ToUpper(method) IN
       IF m = "OPTIONS" THEN TRUE
       ELSE \E i \in DOMAIN c.allowedMethods : c.allowedMethods[i] = m

\* areHeadersAllowed content with one requested header that is allowed.
areHeadersAllowedAny(c, requestedHeaders) ==
  IF c.allowedHeadersAll \/ Len(requestedHeaders) = 0 THEN TRUE
  ELSE \E k \in DOMAIN requestedHeaders :
         \E i \in DOMAIN c.allowedHeaders :
           c.allowedHeaders[i] = CanonicalHeaderKey(requestedHeaders[k])

\* Cors.areHeadersAllowed
areHeadersAllowed(c, requestedHeaders) ==
  IF c.allowedHeadersAll \/ Len(requestedHeaders) = 0 THEN TRUE
  ELSE \A k \in DOMAIN requestedHeaders :
         \E i \in DOMAIN c.allowedHeaders :
           c.allowedHeaders[i] = CanonicalHeaderKey(requestedHeaders[k])

\* parseHeaderList(headerList): the names of a comma-separated list,
\* canonicalized; the header value is held here as the list of its names.
parseHeaderList(headerList) == convert(headerList, "http.CanonicalHeaderKey")

----------------------------------------------------------------------------
(* The CORS guard: requests *)

HeaderNames ==
  {"Vary", "Access-Control-Allow-Origin", "Access-Control-Allow-Methods",
   "Access-Control-Allow-Headers", "Access-Control-Allow-Credentials",
   "Access-Control-Max-Age", "Access-Control-Expose-Headers"}

\* An http.Header: the values under each name, none for a name not in the map.
EmptyHeader == [k \in HeaderNames |-> <<>>]

HeaderAdd(h, k, v) == [h EXCEPT ![k] = Append(@, v)]

HeaderSet(h, k, v) == [h EXCEPT ![k] = <<v>>]

\* strconv.Itoa, for n >= 0: the decimal digits
RECURSIVE Itoa(_)
Itoa(n) == IF n < 10 THEN <<n>> ELSE Append(Itoa(n \div 10), n % 10)

\* A *rest.Error: NewErrorf(s, f, a...) is &Error{s, nil, basicError{s, message}}.
NewErrorf(s, message) == [status |-> s, cause |-> message]

NoError == [status |-> 0, cause |-> "nil"]

\* A rejection carrying 403 Forbidden.
BadRequestAsForbidden(message) == NewErrorf(403, message)

\* rest.NewErrorf(http.StatusBadRequest, ...)
BadRequest(message) == NewErrorf(400, message)

\* Cors.handlePreflight(w, r): the error returned and w's headers afterwards
handlePreflight(c, r, w) ==
  LET headers == HeaderAdd(HeaderAdd(HeaderAdd(EmptyHeader,
                   "Vary", "Origin"),
                   "Vary", "Access-Control-Request-Method"),
                   "Vary", "Access-Control-Request-Headers")
      origin == r.origin
      reqMethod == r.acrm
      reqHeaders == parseHeaderList(r.acrh)
  IN
  IF r.method # "OPTIONS"
  THEN [err |-> BadRequest("Invalid request method for pre-flight"), w |-> w]
  ELSE IF origin = <<>>
  THEN [err |-> BadRequest("No origin provided"), w |-> w]
  ELSE IF ~isOriginAllowed(c, origin)
  THEN [err |-> BadRequest("Origin is not permitted"), w |-> w]
  ELSE IF ~isMethodAllowed(c, reqMethod)
  THEN [err |-> BadRequest("Method is not permitted"), w |-> w]
  ELSE IF ~areHeadersAllowed(c, reqHeaders)
  THEN [err |-> BadRequest("Headers not permitted"), w |-> w]
  ELSE
    LET h1 == HeaderSet(headers, "Access-Control-Allow-Methods", ToUpper(reqMethod))
        h2 == IF Len(reqHeaders) > 0
              THEN HeaderSet(h1, "Access-Control-Allow-Headers", reqHeaders)
              ELSE h1
        h3 == HeaderSet(h2, "Access-Control-Allow-Origin", origin)
        h4 == IF c.allowCredentials
              THEN HeaderSet(h3, "Access-Control-Allow-Credentials", "true")
              ELSE h3
        h5 == IF c.maxAge > 0
              THEN HeaderSet(h4, "Access-Control-Max-Age", Itoa(c.maxAge))
              ELSE h4
    IN [err |-> NoError,
        \* for k, v := range headers { w.Header()[k] = v }
        w |-> [k \in HeaderNames |-> IF h5[k] # <<>> THEN h5[k] ELSE w[k]]]

\* handleActualRequest adding Vary before it looks at the Origin header.
handleActualRequestVaryFirst(c, r, w) ==
  LET origin == r.origin
      headers == HeaderAdd(w, "Vary", "Origin") IN
  IF r.method = "OPTIONS"
  THEN [err |-> BadRequest("Invalid request method for post-flight"), w |-> w]
  ELSE IF origin = <<>> /\ c.allowIgnoreCORS
  THEN [err |-> NoError, w |-> headers]
  ELSE IF origin = <<>>
  THEN [err |-> BadRequest("No origin provided"), w |-> headers]
  ELSE IF ~isOriginAllowed(c, origin)
  THEN [err |-> BadRequest("Origin is not permitted"), w |-> headers]
  ELSE IF ~isMethodAllowed(c, r.method)
  THEN [err |-> BadRequest("Method is not permitted"), w |-> headers]
  ELSE
    LET h1 == HeaderSet(headers, "Access-Control-Allow-Origin", origin)
        h2 == IF Len(c.exposedHeaders) > 0
              THEN HeaderSet(h1, "Access-Control-Expose-Headers", c.exposedHeaders)
              ELSE h1
        h3 == IF c.allowCredentials
              THEN HeaderSet(h2, "Access-Control-Allow-Credentials", "true")
              ELSE h2
    IN [err |-> NoError, w |-> h3]

\* handleActualRequest granting the origin before it checks the method.
handleActualRequestGrantFirst(c, r, w) ==
  LET origin == r.origin
      headers == HeaderAdd(w, "Vary", "Origin") IN
  IF r.method = "OPTIONS"
  THEN [err |-> BadRequest("Invalid request method for post-flight"), w |-> w]
  ELSE IF origin = <<>> /\ c.allowIgnoreCORS
  THEN [err |-> NoError, w |-> w]
  ELSE IF origin = <<>>
  THEN [err |-> BadRequest("No origin provided"), w |-> headers]
  ELSE IF ~isOriginAllowed(c, origin)
  THEN [err |-> BadRequest("Origin is not permitted"), w |-> headers]
  ELSE
    LET h1 == HeaderSet(headers, "Access-Control-Allow-Origin", origin)
        h2 == IF Len(c.exposedHeaders) > 0
              THEN HeaderSet(h1, "Access-Control-Expose-Headers", c.exposedHeaders)
              ELSE h1
        h3 == IF c.allowCredentials
              THEN HeaderSet(h2, "Access-Control-Allow-Credentials", "true")
              ELSE h2
    IN IF ~isMethodAllowed(c, r.method)
       THEN [err |-> BadRequest("Method is not permitted"), w |-> h1]
       ELSE [err |-> NoError, w |-> h3]

\* Cors.handleActualRequest(w, r): headers is w.Header() itself
handleActualRequest(c, r, w) ==
  LET origin == r.origin
      headers == HeaderAdd(w, "Vary", "Origin") IN
  IF r.method = "OPTIONS"
  THEN [err |-> BadRequest("Invalid request method for post-flight"), w |-> w]
  ELSE IF origin = <<>> /\ c.allowIgnoreCORS
  THEN [err |-> NoError, w |-> w]
  ELSE IF origin = <<>>
  THEN [err |-> BadRequest("No origin provided"), w |-> headers]
  ELSE IF ~isOriginAllowed(c, origin)
  THEN [err |-> BadRequest("Origin is not permitted"), w |-> headers]
  ELSE IF ~isMethodAllowed(c, r.method)
  THEN [err |-> BadRequest("Method is not permitted"), w |-> headers]
  ELSE
    LET h1 == HeaderSet(headers, "Access-Control-Allow-Origin", origin)
        h2 == IF Len(c.exposedHeaders) > 0
              THEN HeaderSet(h1, "Access-Control-Expose-Headers", c.exposedHeaders)
              ELSE h1
        h3 == IF c.allowCredentials
              THEN HeaderSet(h2, "Access-Control-Allow-Credentials", "true")
              ELSE h2
    IN [err |-> NoError, w |-> h3]

\* What Cors.ServeRequest hands back when it returns (nil, err).
Rejected(e, w, st) ==
  [ret |-> Result("nil", "rest.Error"), error |-> e, w |-> w, next |-> FALSE,
   seen |-> EmptyHeader, st |-> st]

\* Cors.ServeRequest letting a successful preflight through to the remaining
\* pipeline when the policy has optionPassthrough.
CorsServeRequestPassthrough(c, r, w, hp, pln, st) ==
  IF r.method = "OPTIONS"
  THEN LET p == handlePreflight(c, r, w) IN
       IF p.err # NoError THEN Rejected(p.err, p.w, st)
       ELSE IF c.optionPassthrough
       THEN LET n == PNext(hp, Elems(hp, pln), st) IN
            [ret |-> n.out, error |-> NoError, w |-> p.w, next |-> TRUE,
             seen |-> p.w, st |-> n.st]
       ELSE [ret |-> NilNil, error |-> NoError, w |-> p.w, next |-> FALSE,
             seen |-> EmptyHeader, st |-> st]
  ELSE LET a == handleActualRequest(c, r, w) IN
       IF a.err # NoError THEN Rejected(a.err, a.w, st)
       ELSE LET n == PNext(hp, Elems(hp, pln), st) IN
            [ret |-> n.out, error |-> NoError, w |-> a.w, next |-> TRUE,
             seen |-> a.w, st |-> n.st]

\* Cors.ServeRequest calling the remaining pipeline before it sets the
\* headers of an actual request.
CorsServeRequestHeadersLate(c, r, w, hp, pln, st) ==
  IF r.method = "OPTIONS"
  THEN LET p == handlePreflight(c, r, w) IN
       IF p.err # NoError THEN Rejected(p.err, p.w, st)
       ELSE [ret |-> NilNil, error |-> NoError, w |-> p.w, next |-> FALSE,
             seen |-> EmptyHeader, st |-> st]
  ELSE LET a == handleActualRequest(c, r, w) IN
       IF a.err # NoError THEN Rejected(a.err, a.w, st)
       ELSE LET n == PNext(hp, Elems(hp, pln), st) IN
            [ret |-> n.out, error |-> NoError, w |-> a.w, next |-> TRUE,
             seen |-> w, st |-> n.st]

\* Cors.ServeRequest(rsp, req, pln): what it returns (ret, with the *rest.Error
\* when it is one), rsp's headers afterwards, whether pln.Next was called, the
\* headers rsp had when it was (seen) and the dispatch state after it.
CorsServeRequest(c, r, w, hp, pln, st) ==
  IF r.method = "OPTIONS"
  THEN LET p == handlePreflight(c, r, w) IN
       IF p.err # NoError THEN Rejected(p.err, p.w, st)
       ELSE [ret |-> NilNil, error |-> NoError, w |-> p.w, next |-> FALSE,
             seen |-> EmptyHeader, st |-> st]
  ELSE LET a == handleActualRequest(c, r, w) IN
       IF a.err # NoError THEN Rejected(a.err, a.w, st)
       ELSE LET n == PNext(hp, Elems(hp, pln), st) IN
            [ret |-> n.out, error |-> NoError, w |-> a.w, next |-> TRUE,
             seen |-> a.w, st |-> n.st]

\* Inputs of the guard.
OriginLists ==
  { <<>>,
    << <<"A">> >>,
    << <<"a", "*">>, <<"b">> >>,
    << <<"a">>, <<"*">> >>,
    << <<"*">>, <<"b">>, <<"b", "*">> >>,
    << <<"A", "*", "b">> >>,
    << <<"*">> >> }

MethodLists == { <<>>, <<"GET", "POST">>, <<"get", "post", "Delete">> }

HeaderLists == { <<>>, <<"x-foo">>, <<"accept", "*">> }

\* The remaining options, as they are set together.
OptionFlags ==
  { [ExposedHeaders |-> <<>>, AllowCredentials |-> FALSE, MaxAge |-> 0,
     OptionsPassthrough |-> FALSE, AllowIgnoreCORS |-> FALSE, AllowOriginFunc |-> "nil"],
    [ExposedHeaders |-> <<"x-bar">>, AllowCredentials |-> TRUE, MaxAge |-> 600,
     OptionsPassthrough |-> TRUE, AllowIgnoreCORS |-> TRUE, AllowOriginFunc |-> "nil"],
    [ExposedHeaders |-> <<>>, AllowCredentials |-> FALSE, MaxAge |-> 0,
     OptionsPassthrough |-> FALSE, AllowIgnoreCORS |-> TRUE, AllowOriginFunc |-> "nil"],
    [ExposedHeaders |-> <<>>, AllowCredentials |-> TRUE, MaxAge |-> 0,
     OptionsPassthrough |-> TRUE, AllowIgnoreCORS |-> FALSE, AllowOriginFunc |-> "nil"],
    [ExposedHeaders |-> <<>>, AllowCredentials |-> TRUE, MaxAge |-> 0,
     OptionsPassthrough |-> FALSE, AllowIgnoreCORS |-> FALSE, AllowOriginFunc |-> "onlyB"] }

Options(os, ms, hs, f) ==
  [AllowedOrigins |-> os, AllowedMethods |-> ms, AllowedHeaders |-> hs,
   ExposedHeaders |-> f.ExposedHeaders, AllowCredentials |-> f.AllowCredentials,
   MaxAge |-> f.MaxAge, OptionsPassthrough |-> f.OptionsPassthrough,
   AllowIgnoreCORS |-> f.AllowIgnoreCORS, AllowOriginFunc |-> f.AllowOriginFunc]

OptionsInputs ==
  {Options(os, ms, hs, f) :
     os \in OriginLists, ms \in MethodLists, hs \in HeaderLists, f \in OptionFlags}

\* Options{}
DefaultOptions ==
  [AllowedOrigins |-> <<>>, AllowedMethods |-> <<>>, AllowedHeaders |-> <<>>,
   ExposedHeaders |-> <<>>, AllowCredentials |-> FALSE, MaxAge |-> 0,
   OptionsPassthrough |-> FALSE, AllowIgnoreCORS |-> FALSE, AllowOriginFunc |-> "nil"]

\* The Origin header of a request, empty when it has none.
RequestOrigins == { <<>>, <<"a">>, <<"A", "b">>, <<"b">>, <<"a", "x", "B">> }

\* Requests: preflights with their two probe headers, and other requests.
CorsRequests ==
  {[method |-> "OPTIONS", origin |-> o, acrm |-> m, acrh |-> h] :
     o \in RequestOrigins,
     m \in {"", "GET", "delete", "PUT", "OPTIONS"},
     h \in {<<>>, <<"x-foo">>, <<"X-FOO", "accept">>, <<"x-evil">>}}
  \cup
  {[method |-> m, origin |-> o, acrm |-> "", acrh |-> <<>>] :
     m \in {"GET", "DELETE", "options"}, o \in RequestOrigins}

\* The response headers when the guard is reached.
WriterHeaders == {EmptyHeader, HeaderAdd(EmptyHeader, "Vary", "Accept-Encoding")}

\* The handler functions after the guard in its pipeline.
RemainingPipelines == { <<>>, <<"term">>, <<"over", "term">> }

\* A guard that has served no request yet.
NoGuard(options) ==
  [called |-> FALSE, options |-> options, c |-> New(options),
   r |-> [method |-> "", origin |-> <<>>, acrm |-> "", acrh |-> <<>>],
   w0 |-> EmptyHeader, es |-> <<>>,
   ret |-> NilNil, error |-> NoError, w |-> EmptyHeader, next |-> FALSE,
   seen |-> EmptyHeader, st |-> StartState(<<>>, 0, FALSE, FALSE)]

InitGuardIdle == guard = NoGuard(DefaultOptions)

\* c := cors.New(options)
InitGuard == \E options \in OptionsInputs : guard = NoGuard(options)

\* One request reaching the guard c at the head of a pipeline whose remaining
\* handlers are es, with response headers w0.
CorsServe(r, w0, es) ==
  /\ ~guard.called
  /\ LET l == Literal(<<>>, [i \in DOMAIN es |-> HandlerFunc(es[i])])
         g == CorsServeRequest(guard.c, r, w0, l.heap, l.p,
                               StartState(<<>>, 0, FALSE, FALSE))
     IN guard' = [guard EXCEPT !.called = TRUE, !.r = r, !.w0 = w0, !.es = es,
                               !.ret = g.ret, !.error = g.error, !.w = g.w,
                               !.next = g.next, !.seen = g.seen, !.st = g.st]
  /\ UNCHANGED <<pvars, uvars, codec, yvars>>

----------------------------------------------------------------------------
(* Responses: sendResponse and sendEntity *)

\* A Go value handed around as interface{} or error: its dynamic type and the
\* fields that type has (the others at their zero value).
Value(type, status, message, ctype, data) ==
  [type |-> type, status |-> status, message |-> message, ctype |-> ctype,
   data |-> data]

NilValue == Value("nil", 0, "", "", "")

\* An Entity with its content type and bytes.
BytesEntity(ctype, data) == Value("Entity", 0, "", ctype, data)

RawMessage(data) == Value("json.RawMessage", 0, "", "", data)

\* A value of the program's own, marshalled by encoding/json.
Struct(data) == Value("struct", 0, "", "", data)

\* basicError{Status, Message}
basicError(s, msg) == Value("basicError", s, msg, "", "")

\* errors.New(msg): an error whose only field is unexported.
errorString(msg) == Value("errorString", 0, msg, "", "")

\* The Error() method of basicError and of errors.New's value.
ErrorMessage(e) == e.message

\* An error value as sendResponse's type switch sees it: a *Error with its
\* fields, or an error of another type (kept in val), or nil.
NilErr == [type |-> "nil", Status |-> 0, Headers |-> {}, Cause |-> NilValue, val |-> NilValue]

\* NewError(s, e): &Error{s, nil, e}
NewError(s, e) ==
  [type |-> "*Error", Status |-> s, Headers |-> {}, Cause |-> e, val |-> NilValue]

\* What NewErrorf returns, as such an error value: the cause is
\* basicError{s, message}.
Errorf(e) == NewError(e.status, basicError(e.status, e.cause))

\* (*Error).SetHeaders
SetHeaders(e, h) == [e EXCEPT !.Headers = h]

\* An error that is not a *Error.
PlainError(v) ==
  [type |-> v.type, Status |-> 0, Headers |-> {}, Cause |-> NilValue, val |-> v]

\* Bytes written to the response body.
Bytes(data) ==
  [form |-> "bytes", keys |-> {}, status |-> 0, message |-> "", data |-> data]

\* json.Marshal(content): an object with the exported, tagged fields of the
\* value; "{}" for a value without any.
Marshal(v) ==
  CASE v.type = "basicError" ->
         [form |-> "object", keys |-> {"status", "message"}, status |-> v.status,
          message |-> v.message, data |-> ""]
    [] v.type = "struct" ->
         [form |-> "object", keys |-> {"data"}, status |-> 0, message |-> "",
          data |-> v.data]
    [] OTHER ->
         [form |-> "object", keys |-> {}, status |-> 0, message |-> "", data |-> ""]

SendHeaderNames ==
  {"X-Request-Id", "User-Agent", "Content-Type", "Location", "Retry-After"}

\* An http.ResponseWriter: its header map, the WriteHeader calls made on it
\* and the writes to its body.
NewWriter ==
  [header |-> [k \in SendHeaderNames |-> <<>>], code |-> <<>>, body |-> <<>>]

\* for k, v := range headers { rsp.Header().Add(k, v) }, headers a
\* map[string]string given as its set of <<key, value>> pairs.
AddAll(h, headers) ==
  [k \in DOMAIN h |->
     IF \E p \in headers : p[1] = k
     THEN Append(h[k], (CHOOSE p \in headers : p[1] = k)[2])
     ELSE h[k]]

WriteHeader(w, status) == [w EXCEPT !.code = Append(@, status)]

Write(w, b) == [w EXCEPT !.body = Append(@, b)]

\* Service.sendEntity
sendEntity(w, userAgent, req, status, headers, content) ==
  LET w1 == [w EXCEPT !.header = AddAll(@, headers)]
      w2 == IF userAgent # ""
            THEN [w1 EXCEPT !.header = HeaderAdd(@, "User-Agent", userAgent)]
            ELSE w1
  IN CASE content.type = "nil" -> WriteHeader(w2, status)
       [] content.type = "Entity" ->
            \* io.Copy(rsp, e): what is left to read of e, nothing when it is
            \* at its end
            LET w3 == WriteHeader([w2 EXCEPT !.header =
                                     HeaderAdd(@, "Content-Type", content.ctype)], status)
            IN IF content.data = "" THEN w3 ELSE Write(w3, Bytes(content.data))
       [] content.type = "json.RawMessage" ->
            Write(WriteHeader([w2 EXCEPT !.header =
                                 HeaderAdd(@, "Content-Type", "application/json")], status),
                  Bytes(content.data))
       [] OTHER ->
            Write(WriteHeader([w2 EXCEPT !.header =
                                 HeaderAdd(@, "Content-Type", "application/json")], status),
                  Marshal(content))

\* sendResponse answering a structured error as it answers any other error.
sendResponseWrapAll(w, userAgent, req, res, err) ==
  LET w1 == [w EXCEPT !.header = HeaderSet(@, "X-Request-Id", req.Id)] IN
  IF err.type = "nil" THEN sendEntity(w1, userAgent, req, 200, {}, res)
  ELSE sendEntity(w1, userAgent, req, 500, {},
                  basicError(500, ErrorMessage(IF err.type = "*Error"
                                               THEN err.Cause ELSE err.val)))

\* Service.sendResponse
sendResponse(w, userAgent, req, res, err) ==
  LET w1 == [w EXCEPT !.header = HeaderSet(@, "X-Request-Id", req.Id)] IN
  IF err.type = "nil" THEN sendEntity(w1, userAgent, req, 200, {}, res)
  ELSE IF err.type = "*Error"
  THEN sendEntity(w1, userAgent, req, err.Status, err.Headers, err.Cause)
  ELSE sendEntity(w1, userAgent, req, 500, {}, basicError(500, ErrorMessage(err.val)))

\* What a handler returns as its result.
SendResults ==
  {NilValue, BytesEntity("text/plain", "hello"), RawMessage("[1]"), Struct("v")}

\* Structured errors: NewError with an opaque cause or none, NewErrorf, each
\* with and without headers.
StructuredErrors ==
  LET es == {NewError(s, c) : s \in {404, 503}, c \in {NilValue, errorString("boom")}}
              \cup {Errorf(NewErrorf(s, "missing")) : s \in {400, 404}}
  IN {SetHeaders(e, h) : e \in es, h \in {{}, {<<"Location", "/x">>}}}

SendErrors ==
  {NilErr} \cup StructuredErrors
    \cup {PlainError(errorString("boom")), PlainError(basicError(404, "gone"))}

\* Config.UserAgent
UserAgents == {"", "go-rest"}

\* The request answered: its id and its Accept header.
SendRequests == {[Id |-> "id1", Accept |-> a] : a \in {"", "text/html"}}

\* An Entity is an io.Reader (BytesEntity a *bytes.Buffer): io.Copy leaves it
\* at its end.
Drained(content) ==
  IF content.type = "Entity" THEN [content EXCEPT !.data = ""] ELSE content

\* The result value after sendResponse(rsp, req, res, err) returned: read to
\* its end if it is the Entity that was sent.
AfterSend(res, err) == IF err.type = "nil" THEN Drained(res) ELSE res

NoResponse ==
  [called |-> FALSE, userAgent |-> "", req |-> [Id |-> "id1", Accept |-> ""],
   res |-> NilValue, err |-> NilErr, w |-> NewWriter, traced |-> FALSE,
   rec |-> NewWriter]

InitResp == resp = NoResponse

\* s.sendResponse(rsp, req, res, err) on a writer nothing was written to
SendResponse(ua, req, res, err) ==
  /\ ~resp.called
  /\ resp' = [called |-> TRUE, userAgent |-> ua, req |-> req, res |-> res,
              err |-> err, w |-> sendResponse(NewWriter, ua, req, res, err),
              traced |-> FALSE, rec |-> NewWriter]
  /\ UNCHANGED <<pvars, uvars, codec, guard, bag, base>>

\* The end of Context.handle for a traced request that is not finalized:
\* sendResponse(rsp, req, res, err), then sendResponse(recorder, req, res,
\* err) with recorder := httptest.NewRecorder()
TracedResponse(ua, req, res, err) ==
  /\ ~resp.called
  /\ resp' = [called |-> TRUE, userAgent |-> ua, req |-> req, res |-> res,
              err |-> err, w |-> sendResponse(NewWriter, ua, req, res, err),
              traced |-> TRUE,
              rec |-> sendResponse(NewWriter, ua, req, AfterSend(res, err), err)]
  /\ UNCHANGED <<pvars, uvars, codec, guard, bag, base>>

----------------------------------------------------------------------------
(* Request attributes *)

\* Internal request flags
reqFlagNone == 0

reqFlagFinalized == 1

AttrKeys == {"k", "u"}

\* An Attrs map: the value under each key, 0 for a key not in the map.
EmptyAttrs == [k \in AttrKeys |-> 0]

AttrMaps == {EmptyAttrs, [EmptyAttrs EXCEPT !["k"] = 1], [k \in AttrKeys |-> 2]}

\* for k, v := range e { m[k] = v }
PutAll(mp, e) == [k \in AttrKeys |-> IF e[k] # 0 THEN e[k] ELSE mp[k]]

\* The executions serving requests at the same time.
Execs == {1, 2}

\* Maps live in a heap, bag.maps[id]; 0 is the nil map.
MapIds == 1..(MaxRequests + 1)

RECURSIVE MergeLoop(_, _)
MergeLoop(mp, a) == IF a = <<>> THEN mp ELSE MergeLoop(PutAll(mp, Head(a)), Tail(a))

\* mergeAttrs(a...): nil when called without attributes, else a new map;
\* the result is [isNil, content].
mergeAttrs(a) ==
  IF a = <<>> THEN [isNil |-> TRUE, content |-> EmptyAttrs]
  ELSE [isNil |-> FALSE, content |-> MergeLoop(EmptyAttrs, a)]

\* newRequestWithAttributes(r, a): &Request{r, id, a, 0, now}; the request
\* holds the map a itself.
newRequestWithAttributes(maps, alloc, a) ==
  [Attrs |-> a, flags |-> reqFlagNone, maps |-> maps, alloc |-> alloc]

\* The request of an execution: the map it holds, what the map held when the
\* request was made (first), and that with the request's own writes (own).
NoReq ==
  [active |-> FALSE, Attrs |-> 0, flags |-> reqFlagNone, first |-> EmptyAttrs,
   own |-> EmptyAttrs]

\* Finalize as r.flags ^= reqFlagFinalized
FinalizeToggle(r) ==
  [r EXCEPT !.flags = IF @ % 2 = 1 THEN @ - reqFlagFinalized ELSE @ + reqFlagFinalized]

\* Request.Finalize: r.flags |= reqFlagFinalized
Finalize(r) == [r EXCEPT !.flags = BitOr(@, reqFlagFinalized)]

\* (req.flags & reqFlagFinalized) == reqFlagFinalized
IsFinalized(r) == r.flags % 2 = reqFlagFinalized

InitBag ==
  bag = [maps |-> [i \in MapIds |-> EmptyAttrs], alloc |-> 0, reg |-> FALSE,
         attr |-> 0, orig |-> EmptyAttrs, req |-> [p \in Execs |-> NoReq],
         started |-> 0, writers |-> {}, panics |-> 0]

\* Context.Handle(u, h, a...): attr := mergeAttrs(a...), kept by the closure
\* registered on the router.
HandleWithAttrs(a) ==
  /\ ~bag.reg
  /\ LET mg == mergeAttrs(a) IN
       bag' = IF mg.isNil
              THEN [bag EXCEPT !.reg = TRUE, !.attr = 0]
              ELSE [bag EXCEPT !.reg = TRUE, !.attr = bag.alloc + 1,
                               !.alloc = @ + 1, !.orig = mg.content,
                               !.maps[bag.alloc + 1] = mg.content]
  /\ UNCHANGED <<pvars, uvars, codec, guard, resp, base>>

\* The closure of the route, run by execution p for a request:
\* c.handle(rsp, newRequestWithAttributes(req, attr), h)
RouteRequest(p) ==
  /\ bag.reg /\ ~bag.req[p].active /\ bag.started < MaxRequests
  /\ LET n == newRequestWithAttributes(bag.maps, bag.alloc, bag.attr) IN
       bag' = [bag EXCEPT !.maps = n.maps, !.alloc = n.alloc, !.started = @ + 1,
                          !.req[p] = [active |-> TRUE, Attrs |-> n.Attrs,
                                      flags |-> n.flags,
                                      first |-> IF n.Attrs = 0 THEN EmptyAttrs
                                                ELSE n.maps[n.Attrs],
                                      own |-> IF n.Attrs = 0 THEN EmptyAttrs
                                              ELSE n.maps[n.Attrs]]]
  /\ UNCHANGED <<pvars, uvars, codec, guard, resp, base>>

\* A handler of the request of p: req.Attrs[k] = v (a panic on the nil map)
HandlerWrite(p, k, v) ==
  /\ bag.req[p].active
  /\ LET id == bag.req[p].Attrs IN
       bag' = IF id = 0
              THEN [bag EXCEPT !.req[p] = NoReq, !.panics = 1]
              ELSE [bag EXCEPT !.maps[id][k] = v, !.req[p].own[k] = v,
                               !.writers = @ \cup {<<p, id>>}]
  /\ UNCHANGED <<pvars, uvars, codec, guard, resp, base>>

\* Request.putAttributes(a) on the request of p, a a map of the caller's
putAttributes(p, a) ==
  /\ bag.req[p].active
  /\ LET id == bag.req[p].Attrs IN
       bag' = IF id = 0
              THEN [bag EXCEPT !.req[p].Attrs = bag.alloc + 1, !.alloc = @ + 1,
                               !.req[p].own = a, !.maps[bag.alloc + 1] = a]
              ELSE [bag EXCEPT !.maps[id] = PutAll(@, a),
                               !.req[p].own = PutAll(@, a),
                               !.writers = @ \cup {<<p, id>>}]
  /\ UNCHANGED <<pvars, uvars, codec, guard, resp, base>>

\* A handler of the request of p: req.Finalize()
RequestFinalize(p) ==
  /\ bag.req[p].active
  /\ bag' = [bag EXCEPT !.req[p] = Finalize(@)]
  /\ UNCHANGED <<pvars, uvars, codec, guard, resp, base>>

\* The handling of the request of p returns.
RouteReturn(p) ==
  /\ bag.req[p].active
  /\ bag' = [bag EXCEPT !.req[p] = NoReq]
  /\ UNCHANGED <<pvars, uvars, codec, guard, resp, base>>

----------------------------------------------------------------------------
(* The program: registration calls, then requests *)

\* Handler functions the program passes to Service.Use, Context.Use,
\* Context.HandleFunc and Pipeline.Add.
SvcFuncs == {"over", "fin"}
CtxFuncs == {"pass", "over"}
RouteFuncs == {"term", "fin", "pass"}
UserFuncs == {"term", "pass"}

\* What a request is: the route its path matches (0: none), whether the path
\* matches a trace pattern, whether reading its body fails.
ReqInputs ==
  {<<FALSE, FALSE>>, <<TRUE, FALSE>>, <<TRUE, TRUE>>}

NoRequest ==
  [valid |-> FALSE, out |-> NilNil, st |-> StartState(<<>>, 0, FALSE, FALSE)]

\* The elements a pipeline made by p.Add(h) is to have, given those of p:
\* for a handler function, p's followed by h.
Expect(old, hp2, p2, h) ==
  IF h.kind = "func" THEN Append(old, h) ELSE Elems(hp2, p2)

InitPipelines ==
  /\ heap = <<>>
  /\ spipe = NilPipeline
  /\ cpipe = NilPipeline
  /\ upipe = NilPipeline
  /\ routes = <<>>
  /\ running = FALSE
  /\ nops = 0
  /\ snap = [s |-> <<>>, c |-> <<>>, u |-> <<>>, r |-> <<>>]
  /\ flat = [s |-> <<>>, c |-> <<>>, r |-> <<>>]
  /\ last = NoRequest

\* Service.Use(h)
ServiceUse(h) ==
  /\ LET a == Add(heap, spipe, h) IN
       /\ heap' = a.heap
       /\ spipe' = a.p
       /\ snap' = [snap EXCEPT !.s = Expect(@, a.heap, a.p, h)]
       /\ flat' = [flat EXCEPT !.s = @ \o Flatten(heap, h)]
  /\ nops' = nops + 1
  /\ UNCHANGED <<cpipe, upipe, routes, running, last>>
  /\ UNCHANGED <<uvars, xvars>>

\* Service.Run, up to the point where it starts listening
ServiceRun ==
  /\ ~running
  /\ LET h == HandlerFunc("routeRequest")
         a == Add(heap, spipe, h) IN
       /\ heap' = a.heap
       /\ spipe' = a.p
       /\ snap' = [snap EXCEPT !.s = Expect(@, a.heap, a.p, h)]
       /\ flat' = [flat EXCEPT !.s = Append(@, h)]
  /\ running' = TRUE
  /\ nops' = nops + 1
  /\ UNCHANGED <<cpipe, upipe, routes, last>>
  /\ UNCHANGED <<uvars, xvars>>

\* Context.Use(h)
ContextUse(h) ==
  /\ LET a == Add(heap, cpipe, h) IN
       /\ heap' = a.heap
       /\ cpipe' = a.p
       /\ snap' = [snap EXCEPT !.c = Expect(@, a.heap, a.p, h)]
       /\ flat' = [flat EXCEPT !.c = @ \o Flatten(heap, h)]
  /\ nops' = nops + 1
  /\ UNCHANGED <<spipe, upipe, routes, running, last>>
  /\ UNCHANGED <<uvars, xvars>>

\* Context.HandleFunc(u, f): Handle(u, c.pipeline.Add(HandlerFunc(f)))
ContextHandleFunc(f) ==
  /\ LET h == HandlerFunc(f)
         a == Add(heap, cpipe, h) IN
       /\ heap' = a.heap
       /\ routes' = Append(routes, a.p)
       /\ snap' = [snap EXCEPT !.r = Append(@, Expect(snap.c, a.heap, a.p, h))]
       /\ flat' = [flat EXCEPT !.r = Append(@, Append(flat.c, h))]
  /\ nops' = nops + 1
  /\ UNCHANGED <<spipe, cpipe, upipe, running, last>>
  /\ UNCHANGED <<uvars, xvars>>

\* Context.Handle(u, h) with a pipeline the program built
ContextHandle(h) ==
  /\ routes' = Append(routes, h)
  /\ snap' = [snap EXCEPT !.r = Append(@, Elems(heap, h))]
  /\ flat' = [flat EXCEPT !.r = Append(@, Elems(heap, h))]
  /\ nops' = nops + 1
  /\ UNCHANGED <<heap, spipe, cpipe, upipe, running, last>>
  /\ UNCHANGED <<uvars, xvars>>

\* p := Pipeline{}
UserLiteral ==
  /\ upipe = NilPipeline
  /\ LET a == Literal(heap, <<>>) IN
       /\ heap' = a.heap
       /\ upipe' = a.p
  /\ snap' = [snap EXCEPT !.u = <<>>]
  /\ nops' = nops + 1
  /\ UNCHANGED <<spipe, cpipe, routes, running, flat, last>>
  /\ UNCHANGED <<uvars, xvars>>

\* p = p.Add(HandlerFunc(f))
UserAdd(f) ==
  /\ LET h == HandlerFunc(f)
         a == Add(heap, upipe, h) IN
       /\ heap' = a.heap
       /\ upipe' = a.p
       /\ snap' = [snap EXCEPT !.u = Expect(@, a.heap, a.p, h)]
  /\ nops' = nops + 1
  /\ UNCHANGED <<spipe, cpipe, routes, running, flat, last>>
  /\ UNCHANGED <<uvars, xvars>>

\* Service.ServeHTTP(rsp, req)
ServeHTTP(path, in) ==
  /\ LET r == ServeHTTPResult(heap, spipe, routes, path, in[1], in[2]) IN
       last' = [valid |-> TRUE, out |-> r.out, st |-> r.st]
  /\ UNCHANGED <<heap, spipe, cpipe, upipe, routes, running, nops, snap, flat>>
  /\ UNCHANGED <<uvars, xvars>>

Init ==
  InitPipelines /\ InitUUIDIdle /\ InitCodec /\ InitGuardIdle /\ InitResp /\ InitBag
    /\ InitBase

\* Registration on the context and on pipelines of the program's own.
RegisterContext ==
  \/ \E f \in CtxFuncs : ContextUse(HandlerFunc(f))
  \/ ContextUse(upipe)
  \/ \E f \in RouteFuncs : ContextHandleFunc(f)
  \/ ContextHandle(upipe)
  \/ UserLiteral
  \/ \E f \in UserFuncs : UserAdd(f)

\* Registration on the service.
RegisterService ==
  \/ \E f \in SvcFuncs : ServiceUse(HandlerFunc(f))
  \/ ServiceUse(upipe)
  \/ ServiceRun

\* One request.
Serve ==
  \E path \in 0..Len(routes), in \in ReqInputs : ServeHTTP(path, in)

\* Registration precedes serving.
Next ==
  \/ nops < MaxOps /\ ~last.valid /\ RegisterContext
  \/ nops < MaxOps /\ ~last.valid /\ RegisterService
  \/ ~last.valid /\ Serve

Spec == Init /\ [][Next]_vars

\* The set-up of one context alone, before any request.
NextRegister == nops < MaxCtxOps /\ RegisterContext

SpecRegister == Init /\ [][NextRegister]_vars

----------------------------------------------------------------------------
(* Reading the latest request *)

Levels == {"svc", "ctx"}

\* The invocations of handler functions made with request L, in order.
LevelTrace(L) == SelectSeq(last.st.trace, LAMBDA e : e.lvl = L)

\* Whether a pipeline was dispatched for request L: the service pipeline by
\* ServeHTTP, a route's pipeline by Context.handle.
Dispatched(L) ==
  /\ last.valid
  /\ L = "ctx" =>
       /\ \E k \in 1..Len(last.st.trace) : last.st.trace[k].name = "routeRequest"
       /\ last.st.path # 0
       /\ ~(last.st.tracing /\ last.st.bodyErr)

\* The pipeline dispatched for request L.
LevelPipe(L) ==
  IF L = "svc" THEN Elems(heap, spipe)
  ELSE IF last.st.path = 0 THEN <<>>
  ELSE Elems(heap, routes[last.st.path])

IsFlat(es) == \A k \in 1..Len(es) : es[k].kind = "func"

Delegates(h) == Behaviour(h.name).deleg

\* Index of the first handler that returns without calling Next.
FirstTerm(es) ==
  CHOOSE i \in 1..Len(es) :
    /\ ~Delegates(es[i])
    /\ \A j \in 1..(i - 1) : Delegates(es[j])

\* Calls of sendResponse on the transport writer of the request.
DefaultWrites == SelectSeq(last.st.sends, LAMBDA w : w.to = "rsp")

\* Name and continuation of each invocation.
Calls(tr) == [k \in 1..Len(tr) |-> [name |-> tr[k].name, cont |-> tr[k].cont]]

----------------------------------------------------------------------------
(* Claims *)

\* C1: dispatching an empty pipeline returns (nil, nil), invokes no handler,
\* writes nothing and does not panic.
C1_EmptyDispatchIsNoOp ==
  (last.valid /\ Len(Elems(heap, spipe)) = 0) =>
     /\ last.out = NilNil
     /\ last.st.trace = <<>>
     /\ last.st.sends = <<>>
     /\ last.st.written = <<>>

\* C2: P1.Add(P2) is the handler sequence got by appending P2's elements to
\* P1 one by one, and pipelines built further from it dispatch the same
\* handlers with the same continuations: every pipeline the program has built
\* has the elements the flattening law gives it, and the latest request ran
\* as it would on those.
C2_FlattenLaw ==
  /\ Elems(heap, spipe) = flat.s
  /\ Elems(heap, cpipe) = flat.c
  /\ \A i \in 1..Len(routes) : Elems(heap, routes[i]) = flat.r[i]
  /\ last.valid =>
       LET r == PNext(heap, flat.s,
                      StartState(routes, last.st.path, last.st.tracing, last.st.bodyErr))
       IN /\ r.out = last.out
          /\ Calls(SelectSeq(r.st.trace, LAMBDA e : e.lvl = "svc")) = Calls(LevelTrace("svc"))

\* C3: Add never mutates or aliases its receiver: every pipeline still has the
\* elements it was built with (for a handler function h, p.Add(h) is p's
\* elements followed by h), whatever was added to any pipeline since.
C3_AddNeverAliases ==
  /\ Elems(heap, spipe) = snap.s
  /\ Elems(heap, cpipe) = snap.c
  /\ Elems(heap, upipe) = snap.u
  /\ Len(routes) = Len(snap.r)
  /\ \A i \in 1..Len(routes) : Elems(heap, routes[i]) = snap.r[i]

\* Two routes registered from the same three-handler context pipeline with
\* different route functions: each is that pipeline followed by its own.
C3_Witness ==
  /\ Len(routes) = 2
  /\ cpipe.len = 3
  /\ routes[1].len = 4 /\ routes[2].len = 4
  /\ SubSeq(Elems(heap, routes[1]), 1, 3) = Elems(heap, cpipe)
  /\ SubSeq(Elems(heap, routes[2]), 1, 3) = Elems(heap, cpipe)
  /\ Elems(heap, routes[1])[4] # Elems(heap, routes[2])[4]

\* C4 as claimed: when hi is the first handler that returns without calling
\* Next, h1..hi are the only handlers invoked and hi's (result, error) is what
\* the dispatch returns.
C4_TerminatorResultReturned ==
  \A L \in Levels :
    (Dispatched(L) /\ IsFlat(LevelPipe(L))
       /\ \E i \in 1..Len(LevelPipe(L)) : ~Delegates(LevelPipe(L)[i])) =>
      LET es == LevelPipe(L)
          i  == FirstTerm(es)
          tr == LevelTrace(L)
      IN (Len(tr) >= i /\ tr[i].ret # Panic) =>
           /\ Len(tr) = i
           /\ \A k \in 1..i : tr[k].name = es[k].name
           /\ tr[1].ret = Behaviour(es[i].name).ret

\* C4 amended: h1..hi are the only handlers invoked, hi's (result, error) is
\* what Next on [hi..hn] returns, and the dispatch returns it when no earlier
\* handler substitutes a result of its own; otherwise it returns the result of
\* the first handler that does.
C4_TerminatorEndsChain ==
  \A L \in Levels :
    (Dispatched(L) /\ IsFlat(LevelPipe(L))
       /\ \E i \in 1..Len(LevelPipe(L)) : ~Delegates(LevelPipe(L)[i])) =>
      LET es == LevelPipe(L)
          i  == FirstTerm(es)
          tr == LevelTrace(L)
          ov == {j \in 1..(i - 1) : Behaviour(es[j].name).own}
      IN /\ Len(tr) >= i
         /\ tr[i].ret # Panic =>
              /\ Len(tr) = i
              /\ \A k \in 1..i : tr[k].name = es[k].name
              /\ tr[i].ret = Behaviour(es[i].name).ret
              /\ ov = {} => tr[1].ret = tr[i].ret
              /\ ov # {} =>
                   tr[1].ret = Behaviour(es[CHOOSE j \in ov : \A m \in ov : j <= m].name).ret

\* A dispatch in which the second handler ends the chain with a third one
\* behind it.
C4_Witness ==
  \E L \in Levels :
    /\ Dispatched(L) /\ IsFlat(LevelPipe(L))
    /\ Len(LevelPipe(L)) >= 3
    /\ Delegates(LevelPipe(L)[1])
    /\ ~Delegates(LevelPipe(L)[2])
    /\ Len(LevelTrace(L)) = 2
    /\ LevelTrace(L)[2].ret # Panic

\* C5: when every handler of [h1..hn] delegates to its continuation, the
\* handlers are invoked in index order, each exactly once, and hi is given
\* exactly [h(i+1)..hn].
C5_InOrderWithTail ==
  \A L \in Levels :
    (Dispatched(L) /\ IsFlat(LevelPipe(L))
       /\ \A i \in 1..Len(LevelPipe(L)) : Delegates(LevelPipe(L)[i])) =>
      LET es == LevelPipe(L)
          tr == LevelTrace(L)
      IN /\ Len(tr) = Len(es)
         /\ \A k \in 1..Len(es) :
              /\ tr[k].name = es[k].name
              /\ tr[k].cont = SubSeq(es, k + 1, Len(es))

\* A dispatch of three delegating handlers, all invoked.
C5_Witness ==
  \E L \in Levels :
    /\ Dispatched(L) /\ IsFlat(LevelPipe(L))
    /\ Len(LevelPipe(L)) = 3
    /\ \A i \in 1..3 : Delegates(LevelPipe(L)[i])
    /\ Len(LevelTrace(L)) = 3
    /\ LevelTrace(L)[1].cont = Tail(LevelPipe(L))

\* C6: on a request some handler finalized, the default response is never
\* written to the transport writer.
C6_FinalizeSuppressesWrite ==
  (last.valid /\ last.st.fin # {}) => DefaultWrites = <<>>

\* C7: the default response is written at most once per request.
C7_NoDoubleWrite ==
  last.valid => Len(DefaultWrites) <= 1

\* One execution generating UUIDs one request after the other.
NextUUIDSeq ==
  \/ \E tm \in Times : UUIDFromTimeEnter(1, tm)
  \/ UUIDFromTimeAdd(1)
  \/ UUIDFromTimeReturn(1)
  \/ NextRequest(1)

\* The state after package initialisation: nothing registered, clockSeq random.
InitGenerator ==
  InitPipelines /\ InitUUID /\ InitCodec /\ InitGuardIdle /\ InitResp /\ InitBag
    /\ InitBase

SpecUUIDSeq == InitGenerator /\ [][NextUUIDSeq]_vars

\* Concurrent executions, each generating the id of its one request.
NextUUIDConc ==
  \/ \E p \in Procs, tm \in Times : UUIDFromTimeEnter(p, tm)
  \/ \E p \in Procs : UUIDFromTimeAdd(p)
  \/ \E p \in Procs : UUIDFromTimeReturn(p)

SpecUUIDConc == InitGenerator /\ [][NextUUIDConc]_vars

\* The low 14 bits of a clock value, those UUIDFromTime keeps.
Low14(c) == c.lo % 16384

\* The generated UUIDs still held, by position.
Held == IF gen.n = 0 THEN {} ELSE IF gen.n = 1 THEN {"cur"}
        ELSE {"first", "prev", "cur"}

\* C8: two UUIDs from consecutive UUIDFromTime calls are never equal, the
\* same time value given to both or not.
C8_ConsecutiveDistinct ==
  gen.n >= 2 => gen.prev.id # gen.cur.id

\* Two consecutive calls given the same time.
C8_Witness ==
  gen.n >= 2 /\ gen.prev.t = gen.cur.t /\ gen.prev.id # gen.cur.id

\* C9 as claimed: UUIDs generated with the same time from two distinct values
\* of the counter are distinct.
C9_DistinctClockDistinctId ==
  \A a, b \in Held :
    (gen[a].clock # gen[b].clock /\ gen[a].t = gen[b].t) => gen[a].id # gen[b].id

\* C9 amended: UUIDs generated with the same time are distinct exactly when
\* the two counter values differ in their low 14 bits.
C9_DistinctLow14DistinctId ==
  \A a, b \in Held :
    gen[a].t = gen[b].t =>
      (gen[a].id # gen[b].id <=> Low14(gen[a].clock) # Low14(gen[b].clock))

\* More than 16384 generations, the first and the latest with the same time
\* and counter values that differ in the low 14 bits.
C9_Witness ==
  /\ gen.n > 16385
  /\ gen.first.t = gen.cur.t
  /\ Low14(gen.first.clock) # Low14(gen.cur.clock)
  /\ gen.first.id # gen.cur.id

\* C10: once every concurrent execution has its UUID, the values they drew
\* from the counter are pairwise distinct, the counter is exactly their number
\* higher than at the start, and their UUIDs are pairwise distinct.
C10_ConcurrentDistinct ==
  (\A p \in Procs : pc[p] = "done") =>
     /\ \A p, q \in Procs : p # q => clock[p] # clock[q]
     /\ clockSeq = AddUint32(gen.start, NProcs)
     /\ \A p, q \in Procs : p # q => uuid[p] # uuid[q]

\* All executions done, all given the same time.
C10_Witness ==
  /\ \A p \in Procs : pc[p] = "done"
  /\ \A p, q \in Procs : atime[p] = atime[q]
  /\ \A p, q \in Procs : p # q => uuid[p] # uuid[q]

----------------------------------------------------------------------------
(* UUID text functions *)

\* One call of a text function, on any of the inputs.
NextText ==
  \/ codec.op = "none" /\ \E s \in StringInputs : ParseUUIDCall(s)
  \/ codec.op = "none" /\ \E u \in UUIDInputs : StringCall(u)
  \/ codec.op = "none" /\ \E u \in UUIDInputs : MarshalJSONCall(u)
  \/ codec.op = "none" /\ \E u \in {ZeroUUID, SampleUUID}, data \in DataInputs :
                           UnmarshalJSONCall(u, data)

SpecText == Init /\ [][NextText]_vars

\* Characters as the properties below read them.
IsLowerHex(r) == r \in (48..57) \cup (97..102)

IsHex(r) == r \in (48..57) \cup (65..70) \cup (97..102)

HexCount(s) == Cardinality({k \in DOMAIN s : IsHex(s[k])})

DigitsBefore(s, k) == Cardinality({i \in 1..(k - 1) : IsHex(s[i])})

IsCanonical(s) ==
  /\ Len(s) = 36
  /\ \A k \in 1..36 : IF k \in {9, 14, 19, 24} THEN s[k] = 45 ELSE IsLowerHex(s[k])

\* Every hyphen of s stands alone after digit 8, 12, 16 or 20.
HyphensCanonical(s) ==
  \A k \in DOMAIN s :
    s[k] = 45 => /\ DigitsBefore(s, k) \in {8, 12, 16, 20}
                 /\ (k > 1 => s[k - 1] # 45)

\* C11: ParseUUID(u.String()) succeeds and returns u, for every UUID u; and
\* ParseUUID(s).String() is s, for every canonical lowercase 8-4-4-4-12 string s.
C11_RoundTrip ==
  /\ codec.op = "String" => ~codec.err /\ codec.ru = codec.u
  /\ codec.op = "ParseUUID" /\ IsCanonical(codec.s) => ~codec.err /\ codec.rs = codec.s

C11_Witness ==
  /\ codec.op = "String"
  /\ codec.u # ZeroUUID
  /\ IsCanonical(codec.rs)
  /\ codec.ru = codec.u

\* C12: ParseUUID fails on every input whose number of hex digits is not 32,
\* and on every input holding a character that is neither a hex digit nor a
\* hyphen.
C12_RejectsCountAndCharacter ==
  codec.op = "ParseUUID"
    /\ (HexCount(codec.s) # 32 \/ \E k \in DOMAIN codec.s : ~IsHex(codec.s[k]) /\ codec.s[k] # 45)
    => codec.err

C12_Witness ==
  /\ codec.op = "ParseUUID"
  /\ HexCount(codec.s) = 32
  /\ \E k \in DOMAIN codec.s : codec.s[k] = 103
  /\ codec.err

\* C13: ParseUUID rejects every input of 32 valid hex digits that has a hyphen
\* anywhere but after digit 8, 12, 16 or 20, or a repeated, leading or
\* trailing hyphen.
C13_HyphenOnlyAtBoundaries ==
  codec.op = "ParseUUID"
    /\ HexCount(codec.s) = 32
    /\ (\A k \in DOMAIN codec.s : IsHex(codec.s[k]) \/ codec.s[k] = 45)
    /\ ~HyphensCanonical(codec.s)
    => codec.err

\* C14: the zero UUID marshals to null and no other UUID does; unmarshaling
\* null or the empty string succeeds and leaves the target zero.
C14_ZeroIsAbsent ==
  /\ codec.op = "MarshalJSON" => (codec.rs = null <=> codec.u = ZeroUUID)
  /\ codec.op = "UnmarshalJSON" /\ codec.s \in {null, <<>>, Quoted(<<>>)}
       => ~codec.err /\ codec.ru = ZeroUUID

\* C15: when parsing fails ParseUUID returns the zero UUID with the error, and
\* UnmarshalJSON leaves its target as it was.
C15_NoPartialOutput ==
  /\ codec.op = "ParseUUID" /\ codec.err => codec.ru = ZeroUUID
  /\ codec.op = "UnmarshalJSON" /\ codec.err => codec.ru = codec.u

C15_Witness ==
  /\ codec.op = "UnmarshalJSON"
  /\ codec.u = SampleUUID
  /\ HexCount(codec.s) = 31
  /\ codec.err
  /\ codec.ru = SampleUUID

----------------------------------------------------------------------------
(* The CORS guard *)

\* The state after cors.New: a guard with any of the policies.
InitCors ==
  InitPipelines /\ InitUUIDIdle /\ InitCodec /\ InitGuard /\ InitResp /\ InitBag
    /\ InitBase

\* One request through the guard.
NextCors ==
  \E r \in CorsRequests, w0 \in WriterHeaders, es \in RemainingPipelines :
    CorsServe(r, w0, es)

SpecCors == InitCors /\ [][NextCors]_vars

\* Reading the guard's request.
IsPreflight == guard.called /\ guard.r.method = "OPTIONS"

IsActual == guard.called /\ guard.r.method # "OPTIONS"

\* No handler after the guard was invoked.
NoDownstream == ~guard.next /\ guard.st.trace = <<>>

\* The guard returned (nil, err) with err a *rest.Error of status 400.
Returned400 ==
  /\ guard.ret = Result("nil", "rest.Error")
  /\ guard.error.status = 400

ThreeVary == <<"Origin", "Access-Control-Request-Method", "Access-Control-Request-Headers">>

\* What the remaining pipeline returns for the request.
RemainingResult ==
  LET l == Literal(<<>>, [i \in DOMAIN guard.es |-> HandlerFunc(guard.es[i])]) IN
  PNext(l.heap, Elems(l.heap, l.p), StartState(<<>>, 0, FALSE, FALSE)).out

\* The requested method, in upper case, is one of the policy's or OPTIONS.
MethodInPolicy(method) ==
  \/ ToUpper(method) = "OPTIONS"
  \/ \E i \in DOMAIN guard.c.allowedMethods : guard.c.allowedMethods[i] = ToUpper(method)

\* One of the guard's checks fails for the request.
ValidationFails ==
  IF guard.r.method = "OPTIONS"
  THEN \/ guard.r.origin = <<>>
       \/ ~isOriginAllowed(guard.c, guard.r.origin)
       \/ ~MethodInPolicy(guard.r.acrm)
       \/ ~areHeadersAllowed(guard.c, parseHeaderList(guard.r.acrh))
  ELSE \/ guard.r.origin = <<>> /\ ~guard.c.allowIgnoreCORS
       \/ guard.r.origin # <<>> /\ ~isOriginAllowed(guard.c, guard.r.origin)
       \/ guard.r.origin # <<>> /\ ~MethodInPolicy(guard.r.method)

\* C16: the response to a preflight carries exactly the Vary entries Origin,
\* Access-Control-Request-Method and Access-Control-Request-Headers, whether
\* the preflight succeeds or is rejected.
C16_PreflightAlwaysVaries ==
  IsPreflight => guard.w["Vary"] = ThreeVary

\* C17: a preflight with an allowed origin and allowed requested headers
\* succeeds exactly when the requested method, in upper case, is in the
\* policy's allowed methods or is OPTIONS; then Access-Control-Allow-Methods is
\* the requested method in upper case, and otherwise the preflight is
\* rejected with 400.
C17_PreflightMethod ==
  IsPreflight /\ guard.r.origin # <<>> /\ isOriginAllowed(guard.c, guard.r.origin)
    /\ areHeadersAllowed(guard.c, parseHeaderList(guard.r.acrh))
    => IF MethodInPolicy(guard.r.acrm)
       THEN /\ guard.error = NoError
            /\ guard.w["Access-Control-Allow-Methods"] = <<ToUpper(guard.r.acrm)>>
       ELSE Returned400

C17_Witness ==
  /\ IsPreflight
  /\ guard.r.acrm = "delete"
  /\ guard.options.AllowedMethods = <<"get", "post", "Delete">>
  /\ guard.error = NoError
  /\ guard.w["Access-Control-Allow-Methods"] = <<"DELETE">>

C19_ValidationFailureIs400 ==
  guard.called /\ ValidationFails => Returned400 /\ NoDownstream

C19_Witness ==
  /\ IsActual
  /\ guard.r.method = "DELETE"
  /\ guard.es # <<>>
  /\ guard.error = BadRequest("Method is not permitted")
  /\ NoDownstream

\* C20: for a request other than OPTIONS without an Origin header: with
\* allowIgnoreCORS the guard leaves the response headers as they were and
\* returns what the remaining pipeline returns; without it the guard returns a
\* 400 rejection and does not invoke the remaining pipeline.
C20_NoOriginActual ==
  IsActual /\ guard.r.origin = <<>> =>
    IF guard.c.allowIgnoreCORS
    THEN guard.w = guard.w0 /\ guard.next /\ guard.ret = RemainingResult
    ELSE Returned400 /\ NoDownstream

C20_Witness ==
  /\ IsActual
  /\ guard.r.origin = <<>>
  /\ guard.c.allowIgnoreCORS
  /\ guard.w0["Vary"] = <<"Accept-Encoding">>
  /\ guard.w = guard.w0
  /\ guard.es = <<"over", "term">>
  /\ guard.ret = Result("B", "nil")

\* Reading the guard's decision on the origin of its request: both branches
\* check a non-empty origin, and a rejection names it.
OriginChecked == guard.called /\ guard.r.origin # <<>>

OriginAccepted == guard.error.cause # "Origin is not permitted"

NoPredicate == guard.options.AllowOriginFunc = "nil"

\* Entry e of an allowed-origins list, with one '*', matches origin o: o in
\* lower case starts with what precedes the '*' and ends with what follows it.
MatchesEntry(e, o) ==
  LET le == ToLower(e)
      lo == ToLower(o)
      i  == CHOOSE k \in DOMAIN le : le[k] = "*"
  IN /\ HasPrefix(lo, SubSeq(le, 1, i - 1))
     /\ HasSuffix(lo, SubSeq(le, i + 1, Len(le)))

\* The allowed-headers set New builds from the options.
AllowedHeaderSet ==
  IF guard.options.AllowedHeaders = <<>> THEN {"Origin", "Accept", "Content-Type"}
  ELSE {CanonicalHeaderKey(guard.options.AllowedHeaders[i]) :
          i \in DOMAIN guard.options.AllowedHeaders} \cup {"Origin"}

AllowAllHeaders ==
  \E i \in DOMAIN guard.options.AllowedHeaders : guard.options.AllowedHeaders[i] = "*"

\* C21: for an actual request with an allowed origin and method the guard has
\* set Vary: Origin, Access-Control-Allow-Origin and, as the policy says,
\* Access-Control-Expose-Headers and Access-Control-Allow-Credentials by the
\* time the remaining pipeline is invoked; it invokes it once and returns its
\* (result, error) pair unchanged.
C21_ActualAllowed ==
  IsActual /\ guard.r.origin # <<>> /\ isOriginAllowed(guard.c, guard.r.origin)
    /\ MethodInPolicy(guard.r.method)
    => /\ guard.next
       /\ \E i \in DOMAIN guard.seen["Vary"] : guard.seen["Vary"][i] = "Origin"
       /\ guard.seen["Access-Control-Allow-Origin"] = <<guard.r.origin>>
       /\ (guard.options.ExposedHeaders # <<>> =>
             guard.seen["Access-Control-Expose-Headers"] = <<guard.c.exposedHeaders>>)
       /\ (guard.options.AllowCredentials =>
             guard.seen["Access-Control-Allow-Credentials"] = <<"true">>)
       /\ guard.w = guard.seen
       /\ guard.ret = RemainingResult
       /\ (guard.es # <<>> =>
             Cardinality({k \in DOMAIN guard.st.trace :
                            guard.st.trace[k].name = guard.es[1]}) = 1)

C21_Witness ==
  /\ IsActual
  /\ guard.r.origin = <<"A", "b">>
  /\ guard.options.AllowCredentials
  /\ guard.options.ExposedHeaders # <<>>
  /\ guard.es = <<"over", "term">>
  /\ guard.ret = Result("B", "nil")
  /\ guard.seen["Access-Control-Allow-Origin"] = <<guard.r.origin>>

C24_PredicateDecides ==
  OriginChecked /\ ~NoPredicate
    => (OriginAccepted <=> CallOriginFunc(guard.options.AllowOriginFunc, guard.r.origin))

C24_Witness ==
  /\ OriginChecked
  /\ ~NoPredicate
  /\ guard.options.AllowedOrigins = <<>>
  /\ guard.r.origin = <<"a">>
  /\ ~OriginAccepted

\* An entry of the allowed-origins list allows the origin: the same in lower
\* case, or a wildcard entry matching it, or the bare "*".
ListAllows ==
  \/ guard.options.AllowedOrigins = <<>>
  \/ \E i \in DOMAIN guard.options.AllowedOrigins :
       LET e == guard.options.AllowedOrigins[i] IN
       \/ e = <<"*">>
       \/ ToLower(e) = ToLower(guard.r.origin)
       \/ (\E k \in DOMAIN e : e[k] = "*") /\ MatchesEntry(e, guard.r.origin)

\* C25: the origin checks are tried exact match first, then wildcards, then
\* the custom predicate, and the first to allow wins: an origin is rejected
\* only if none of them allows it.
C25_FirstAllowWins ==
  OriginChecked
    => (OriginAccepted <=>
          \/ ListAllows
          \/ ~NoPredicate /\ CallOriginFunc(guard.options.AllowOriginFunc, guard.r.origin))

\* C25 as amended: a configured predicate decides alone; without one an origin
\* is allowed exactly when the list allows it.
C25_PredicateElseList ==
  OriginChecked
    => (OriginAccepted <=>
          IF NoPredicate THEN ListAllows
          ELSE CallOriginFunc(guard.options.AllowOriginFunc, guard.r.origin))

C25_Witness ==
  /\ OriginChecked
  /\ ~NoPredicate
  /\ guard.options.AllowedOrigins = << <<"A">> >>
  /\ guard.r.origin = <<"a">>
  /\ ~OriginAccepted

XRequestId ==
  LET s == SelectSeq(last.st.sends, LAMBDA x : x.to = "rsp") IN
  IF s = <<>> THEN "none" ELSE s[1].by

\* C27: the response to every request entering Service.ServeHTTP carries the
\* X-Request-Id header, whatever the outcome.
C27_EveryResponseHasRequestId ==
  last.valid /\ last.out # Panic => XRequestId # "none"

----------------------------------------------------------------------------
(* Responses *)

NextSend ==
  \E ua \in UserAgents, rq \in SendRequests, res \in SendResults, err \in SendErrors :
    \/ SendResponse(ua, rq, res, err)
    \/ TracedResponse(ua, rq, res, err)

SpecSend == Init /\ [][NextSend]_vars

\* The response writer sendResponse hands to sendEntity.
WithRequestId == [NewWriter EXCEPT !.header["X-Request-Id"] = <<resp.req.Id>>]

\* C28: sendResponse answers a nil error with status 200 and the result as
\* content, a *Error with its Status, its Headers and its Cause as content,
\* any other error with status 500 and the body {status: 500, message:
\* err.Error()}; WriteHeader is called once.
C28_StatusMapping ==
  resp.called =>
    /\ Len(resp.w.code) = 1
    /\ resp.err.type = "nil" =>
         /\ resp.w.code = <<200>>
         /\ resp.w = sendEntity(WithRequestId, resp.userAgent, resp.req, 200, {}, resp.res)
    /\ resp.err.type = "*Error" =>
         /\ resp.w.code = <<resp.err.Status>>
         /\ \A h \in resp.err.Headers : resp.w.header[h[1]] = <<h[2]>>
         /\ resp.w = sendEntity(WithRequestId, resp.userAgent, resp.req,
                                resp.err.Status, resp.err.Headers, resp.err.Cause)
    /\ resp.err.type \notin {"nil", "*Error"} =>
         /\ resp.w.code = <<500>>
         /\ resp.w.body = <<[form |-> "object", keys |-> {"status", "message"},
                             status |-> 500, message |-> resp.err.val.message,
                             data |-> ""]>>

C28_Witness ==
  /\ resp.called
  /\ resp.err.type = "*Error"
  /\ resp.err.Status = 503
  /\ resp.err.Headers # {}
  /\ resp.res # NilValue
  /\ resp.w.code = <<503>>

\* The message of a structured error's cause, none for an absent cause.
CauseMessage == resp.err.Cause.message

\* C29: a structured error with status s is answered with status s and, when
\* Accept does not ask for HTML, the JSON body {"status": s, "message": cause
\* message}, whatever its cause is (NewErrorf's, an opaque error, none); with
\* an HTML document when Accept asks for HTML.
C29_StructuredErrorBody ==
  resp.called /\ resp.err.type = "*Error" =>
    /\ resp.w.code = <<resp.err.Status>>
    /\ IF resp.req.Accept = "text/html"
       THEN /\ resp.w.header["Content-Type"] = <<"text/html">>
            /\ Len(resp.w.body) = 1 /\ resp.w.body[1].form = "bytes"
       ELSE resp.w.body = <<[form |-> "object", keys |-> {"status", "message"},
                             status |-> resp.err.Status, message |-> CauseMessage,
                             data |-> ""]>>

----------------------------------------------------------------------------
(* Request attributes *)

NextAttrs ==
  \/ \E a \in {<<>>} \cup {<<x>> : x \in AttrMaps}
            \cup {<<x, y>> : x \in AttrMaps, y \in AttrMaps} : HandleWithAttrs(a)
  \/ \E p \in Execs : RouteRequest(p)
  \/ \E p \in Execs, k \in AttrKeys, v \in {1, 2} : HandlerWrite(p, k, v)
  \/ \E p \in Execs, a \in AttrMaps : putAttributes(p, a)
  \/ \E p \in Execs : RequestFinalize(p)
  \/ \E p \in Execs : RouteReturn(p)

SpecAttrs == Init /\ [][NextAttrs]_vars

\* C30: attribute bags are per-request: the bag of a request in progress
\* holds what it held when the request was made and what the request itself
\* wrote, no two executions write the same map, and a request starts with
\* the attributes its route was registered with, whatever earlier requests
\* wrote.
C30_BagsPerRequest ==
  /\ \A p \in Execs :
       bag.req[p].active /\ bag.req[p].Attrs # 0
         => bag.maps[bag.req[p].Attrs] = bag.req[p].own
  /\ \A x \in bag.writers, y \in bag.writers : x[2] = y[2] => x[1] = y[1]
  /\ \A p \in Execs : bag.req[p].active => bag.req[p].first = bag.orig

----------------------------------------------------------------------------
(* The CORS guard, continued *)

\* C32: under a policy built with OptionsPassthrough a successful preflight
\* does not stop at the guard: the remaining pipeline is invoked.
C32_PassthroughContinues ==
  IsPreflight /\ guard.options.OptionsPassthrough /\ guard.error = NoError
    => guard.next

\* The policy allows the origin of the request: by its predicate when it has
\* one, by its list otherwise.
PolicyAllowsOrigin ==
  IF NoPredicate THEN ListAllows
  ELSE CallOriginFunc(guard.options.AllowOriginFunc, guard.r.origin)

\* The response carries a grant.
Grants ==
  \/ guard.w["Access-Control-Allow-Origin"] # <<>>
  \/ guard.w["Access-Control-Allow-Credentials"] # <<>>

\* C37: the response carries Access-Control-Allow-Origin or
\* Access-Control-Allow-Credentials only if the request had a non-empty origin
\* the policy allows and an allowed method (for a preflight: the requested
\* method, and every requested header allowed); a rejected request carries
\* neither.
C37_NoUndueGrant ==
  guard.called =>
    /\ Grants =>
         /\ guard.r.origin # <<>>
         /\ PolicyAllowsOrigin
         /\ MethodInPolicy(IF IsPreflight THEN guard.r.acrm ELSE guard.r.method)
         /\ IsPreflight =>
              \/ AllowAllHeaders
              \/ \A k \in DOMAIN guard.r.acrh :
                   CanonicalHeaderKey(guard.r.acrh[k]) \in AllowedHeaderSet
    /\ guard.error # NoError => ~Grants

C37_Witness ==
  /\ IsActual
  /\ guard.r.origin = <<"b">>
  /\ guard.r.method = "DELETE"
  /\ guard.options.AllowCredentials
  /\ guard.error = BadRequest("Method is not permitted")
  /\ ~Grants

----------------------------------------------------------------------------
(* The finalized flag *)

\* C31: the finalized flag of a request starts clear, Finalize sets it and
\* changes nothing else of the request, and no step of the request's handling
\* clears it once it is set.
C31_FinalizedMonotone ==
  [][\A p \in Execs :
       /\ ~bag.req[p].active /\ bag'.req[p].active => ~IsFinalized(bag'.req[p])
       /\ bag.req[p].active /\ bag'.req[p].active /\ IsFinalized(bag.req[p])
            => IsFinalized(bag'.req[p])
       /\ RequestFinalize(p) =>
            /\ IsFinalized(bag'.req[p])
            /\ bag'.req[p].Attrs = bag.req[p].Attrs
            /\ bag'.maps = bag.maps]_vars

\* A request finalized twice over, with attributes of its own.
C31_Witness ==
  \E p \in Execs :
    /\ bag.req[p].active
    /\ IsFinalized(bag.req[p])
    /\ bag.req[p].Attrs # 0
    /\ bag.req[p].own # bag.req[p].first

----------------------------------------------------------------------------
(* The base UUID of a time *)

\* clockSeq at any of its values, nothing generated yet.
InitBaseGenerator ==
  /\ InitPipelines /\ InitCodec /\ InitGuardIdle /\ InitResp /\ InitBag /\ InitBase
  /\ clockSeq \in BaseClockSeqs
  /\ pc = [p \in Procs |-> "idle"]
  /\ atime = [p \in Procs |-> [sec |-> 0, nsec |-> 0]]
  /\ clock = [p \in Procs |-> U32(0, 0)]
  /\ uuid = [p \in Procs |-> <<>>]
  /\ gen = [n |-> 0, start |-> clockSeq, first |-> NoGen, prev |-> NoGen, cur |-> NoGen]

\* One generation by UUIDFromTime and one call of UUIDBaseFromTime.
NextUUIDBase ==
  \/ \E tm \in Times : UUIDFromTimeEnter(1, tm)
  \/ UUIDFromTimeAdd(1)
  \/ UUIDFromTimeReturn(1)
  \/ \E tm \in Times : UUIDBaseFromTimeCall(tm)

SpecUUIDBase == InitBaseGenerator /\ [][NextUUIDBase]_vars

\* a <= b, byte by byte from the first
RECURSIVE LexLeq(_, _)
LexLeq(a, b) ==
  IF a = <<>> THEN TRUE
  ELSE IF b = <<>> THEN FALSE
  ELSE IF Head(a) # Head(b) THEN Head(a) < Head(b)
  ELSE LexLeq(Tail(a), Tail(b))

\* C33: the UUID UUIDBaseFromTime returns for a time is byte-wise at most the
\* UUID UUIDFromTime returns for that time, whatever the clock sequence, and
\* the call leaves clockSeq as it was.
C33_BaseIsLowerBound ==
  base.called =>
    /\ base.after = base.before
    /\ (pc[1] = "done" /\ atime[1] = base.t => LexLeq(base.id, uuid[1]))

\* A base and a generated UUID of the same time that differ in both clock
\* bytes.
C33_Witness ==
  /\ base.called
  /\ pc[1] = "done"
  /\ atime[1] = base.t
  /\ uuid[1][9] > base.id[9]
  /\ uuid[1][10] > base.id[10]
  /\ LexLeq(base.id, uuid[1])
  /\ clockSeq = AddUint32(base.before, 1)

----------------------------------------------------------------------------
(* Tracing *)

\* C35: for a traced request that is not finalized the response sent to the
\* recorder has the status, headers and body of the response sent to the
\* client, whatever the content, and the client's status line is written
\* once.
C35_MirrorEqualsResponse ==
  resp.traced =>
    /\ resp.rec.code = resp.w.code
    /\ resp.rec.header = resp.w.header
    /\ resp.rec.body = resp.w.body
    /\ Len(resp.w.code) = 1

----------------------------------------------------------------------------
(* Pipelines as handlers *)

\* C34: a Pipeline used as a Handler ignores its continuation. When the
\* service pipeline holds a pipeline Q = [q1..qm] followed by other handlers,
\* the dispatch runs q1 with continuation [q2..qm], every handler invoked is
\* one of Q's with the rest of Q as its continuation, and the handlers after
\* Q are never invoked, also when qm calls Next on its empty continuation.
C34_PipelineIgnoresContinuation ==
  LET es == Elems(heap, spipe) IN
  last.valid /\ es # <<>> /\ es[1].kind = "pipeline" =>
    LET qs == Elems(heap, es[1])
        tr == LevelTrace("svc")
    IN /\ qs # <<>> => /\ tr # <<>>
                       /\ tr[1].name = qs[1].name
                       /\ tr[1].cont = Tail(qs)
       /\ qs = <<>> => tr = <<>>
       /\ \A k \in DOMAIN tr :
            \E j \in DOMAIN qs :
              /\ tr[k].name = qs[j].name
              /\ tr[k].cont = SubSeq(qs, j + 1, Len(qs))
       /\ \A k \in DOMAIN last.st.trace : last.st.trace[k].name # "routeRequest"

\* Q = [pass, pass] in front of the routing handler: both run, the second
\* calls Next on its empty continuation, routing is never reached.
C34_Witness ==
  LET es == Elems(heap, spipe) IN
  /\ last.valid
  /\ Len(es) = 2
  /\ es[1].kind = "pipeline"
  /\ es[2] = HandlerFunc("routeRequest")
  /\ Elems(heap, es[1]) = <<HandlerFunc("pass"), HandlerFunc("pass")>>
  /\ Len(LevelTrace("svc")) = 2
  /\ LevelTrace("svc")[1].cont = <<HandlerFunc("pass")>>
  /\ LevelTrace("svc")[2].cont = <<>>

\* The handler functions a dispatch of es can reach, in order: each handler
\* function hands the rest on, a pipeline runs its own elements and hands
\* nothing on.
RECURSIVE Reach(_, _)
Reach(hp, es) ==
  IF es = <<>> THEN <<>>
  ELSE IF Head(es).kind = "func" THEN <<Head(es)>> \o Reach(hp, Tail(es))
  ELSE IF Head(es).kind = "pipeline" THEN Reach(hp, Elems(hp, Head(es)))
  ELSE <<>>

\* C36: what runs for a registered route is the handlers passed to
\* Context.Use before its registration, in Use order, followed by the route
\* function, whatever is registered afterwards.
C36_RouteIsSnapshot ==
  /\ Len(routes) = Len(flat.r)
  /\ \A i \in 1..Len(routes) : Reach(heap, <<routes[i]>>) = flat.r[i]

====
